---- MODULE Spec2Model ----
(***************************************************************************)
(* A model of the rubric import of codePost Powertools (Google Apps        *)
(* Script): the field validator and resource accessors of                  *)
(* src/gas/3_CodePost.js, the batched request layer of                     *)
(* src/unnamed/part_003 and the reconciliation engine importRubric_ of     *)
(* src/unnamed/part_004, run against a remote store of rubric categories   *)
(* and rubric comments.                                                    *)
(***************************************************************************)
EXTENDS Integers, Sequences, FiniteSets, TLC

VARIABLES
    cats,          \* remote store: the rubric categories (stored, wire sign)
    coms,          \* remote store: the rubric comments (stored, wire sign)
    nextId,        \* remote store: the next id the store hands out
    listOrder,     \* remote store: how it orders the id lists it returns
    subs,          \* remote store: number of submissions of the assignment
    assignmentId,  \* argument of importRubric_
    rubric,        \* argument of importRubric_
    wipe,          \* argument of importRubric_
    deleteExtra,   \* argument of importRubric_
    pc,            \* position of importRubric_
    run,           \* number of the current call of importRubric_
    err,           \* the exception importRubric_ ended with (kind "none": none)
    asked,         \* whether askYesNo_ was shown in this call
    log,           \* the requests handed to UrlFetchApp in this call, in order
    loc,           \* the local variables of importRubric_
    pre,           \* the remote categories and comments when the call started
    prevOk,        \* the previous call (same arguments) returned normally
    call,          \* a direct call of fetch_ or fetchOne_: arguments and locals
    apiKey         \* the document property API_KEY (Null: not set)

vars == <<cats, coms, nextId, listOrder, subs, assignmentId, rubric, wipe,
          deleteExtra, pc, run, err, asked, log, loc, pre, prevOk, call,
          apiKey>>

(***************************************************************************)
(* JavaScript values.  A value has a type tag t, a numeric part n and a    *)
(* string part s.  "frac" is the non-integer number n + 0.5.               *)
(***************************************************************************)
Undef == [t |-> "undefined", n |-> 0, s |-> ""]
Null == [t |-> "null", n |-> 0, s |-> ""]
NaN == [t |-> "nan", n |-> 0, s |-> ""]
Num(i) == [t |-> "num", n |-> i, s |-> ""]
Frac(i) == [t |-> "frac", n |-> i, s |-> ""]
Str(x) == [t |-> "str", n |-> 0, s |-> x]
Bool(b) == [t |-> "bool", n |-> IF b THEN 1 ELSE 0, s |-> ""]

\* The integer a property key denotes when it is an array index ("1", "7"),
\* else -1: JavaScript enumerates such keys first, in ascending order.
ArrayIndex(k) ==
    CASE k = "1" -> 1
      [] k = "7" -> 7
      [] OTHER -> -1

\* Number(s) of a string: the numeric strings of the model, blank strings, NaN.
StrToNumber(x) ==
    IF ArrayIndex(x) >= 0 THEN Num(ArrayIndex(x))
    ELSE IF x \in {"", " "} THEN Num(0)
    ELSE NaN

\* The unary minus of JavaScript, -v.
Neg(v) ==
    CASE v.t = "num" -> Num(0 - v.n)
      [] v.t = "frac" -> Frac(0 - v.n - 1)
      [] v.t = "null" -> Num(0)
      [] v.t = "bool" -> Num(0 - v.n)
      [] v.t = "str" -> (LET x == StrToNumber(v.s) IN
                          IF x.t = "num" THEN Num(0 - x.n) ELSE NaN)
      [] OTHER -> NaN

\* a === b of JavaScript on primitive values.
StrictEq(a, b) == a.t # "nan" /\ a = b

\* v == null of JavaScript (null or undefined).
IsNullish(v) == v.t \in {"null", "undefined"}

\* hasProp_(obj, prop)
hasProp_(obj, prop) == prop \in DOMAIN obj

\* JSON.stringify of a payload followed by the store's JSON.parse: NaN is
\* written as null and undefined properties are dropped.
JsonValue(v) == IF v.t = "nan" THEN Null ELSE v
Json(obj) ==
    LET keep == {f \in DOMAIN obj : obj[f].t # "undefined"}
    IN  [f \in keep |-> JsonValue(obj[f])]

(***************************************************************************)
(* JavaScript objects used as maps: a sequence of entries [k, v] in the    *)
(* order Object.keys / Object.entries / Object.values enumerate them.      *)
(***************************************************************************)
ObjHas(obj, k) == \E i \in 1..Len(obj) : obj[i].k = k

ObjGet(obj, k) == obj[CHOOSE i \in 1..Len(obj) : obj[i].k = k].v

\* obj[k] = v : an existing key keeps its place; a new array-index key goes
\* before every larger index and every string key; a new string key goes last.
ObjPut(obj, k, v) ==
    IF ObjHas(obj, k)
    THEN [i \in 1..Len(obj) |-> IF obj[i].k = k THEN [k |-> k, v |-> v] ELSE obj[i]]
    ELSE IF ArrayIndex(k) < 0
    THEN Append(obj, [k |-> k, v |-> v])
    ELSE LET before == {i \in 1..Len(obj) :
                          ArrayIndex(obj[i].k) >= 0 /\ ArrayIndex(obj[i].k) < ArrayIndex(k)}
             nb == Cardinality(before)
         IN  SubSeq(obj, 1, nb) \o <<[k |-> k, v |-> v]>> \o SubSeq(obj, nb + 1, Len(obj))

RECURSIVE ObjFromEntriesFrom(_, _, _)
ObjFromEntriesFrom(entries, i, acc) ==
    IF i > Len(entries) THEN acc
    ELSE ObjFromEntriesFrom(entries, i + 1, ObjPut(acc, entries[i].k, entries[i].v))

\* Object.fromEntries(entries)
ObjFromEntries(entries) == ObjFromEntriesFrom(entries, 1, <<>>)

ObjKeys(obj) == [i \in 1..Len(obj) |-> obj[i].k]
ObjValues(obj) == [i \in 1..Len(obj) |-> obj[i].v]

\* SeqRemove that removes nothing: a matched name stays among the existing ones.
SeqRemoveNothing(s, k) == s

\* set.delete(k) on a Set kept as the sequence of its members in insertion order
SeqRemove(s, k) == SelectSeq(s, LAMBDA x : x # k)
SeqHas(s, k) == \E i \in 1..Len(s) : s[i] = k

RECURSIVE Flatten(_)
Flatten(ss) == IF ss = <<>> THEN <<>> ELSE Head(ss) \o Flatten(Tail(ss))

(***************************************************************************)
(* Field validator (src/gas/3_CodePost.js).                                *)
(***************************************************************************)
\* A string whose trim() is empty.
IsBlank(x) == x \in {"", " "}

\* Validator.validateNum: throws only for NaN itself.
validateNum(val) == IF val.t = "nan" THEN "not a number" ELSE ""

\* Validator.validateInt
validateInt(val) ==
    IF validateNum(val) # "" THEN validateNum(val)
    ELSE IF val.t # "num" THEN "not an integer"
    ELSE ""

\* Validator.validateNonNegInt
validateNonNegInt(val) ==
    IF validateInt(val) # "" THEN validateInt(val)
    ELSE IF val.n < 0 THEN "not non-negative"
    ELSE ""

\* Validator.validateNonEmpty: val.trim() is a TypeError unless val is a string.
validateNonEmpty(val) ==
    IF val.t # "str" THEN "TypeError"
    ELSE IF IsBlank(val.s) THEN "invalid"
    ELSE ""

\* Validator.validateBool
validateBool(val) == IF val.t # "bool" THEN "not a boolean" ELSE ""

\* Validator.alwaysValid
alwaysValid(val) == ""

\* The call validate(args[field]) for the validator a field table names.
Validate(validator, val) ==
    CASE validator = "validateNum" -> validateNum(val)
      [] validator = "validateNonNegInt" -> validateNonNegInt(val)
      [] validator = "validateNonEmpty" -> validateNonEmpty(val)
      [] validator = "validateBool" -> validateBool(val)
      [] OTHER -> alwaysValid(val)

NoError == [kind |-> "none", function |-> "", cat |-> 0 - 1, com |-> 0 - 1,
            field |-> "", reason |-> ""]

\* error_(functionName, message), with the message kept in parts.
error_(functionName, field, reason) ==
    [kind |-> "checkArgs", function |-> functionName, cat |-> 0 - 1, com |-> 0 - 1,
     field |-> field, reason |-> reason]

\* What the loops of checkArgs_ throw for one field, "" if nothing.
FieldProblem(args, entry, isRequired) ==
    IF ~hasProp_(args, entry[1])
    THEN (IF isRequired THEN "missing" ELSE "")
    ELSE Validate(entry[2], args[entry[1]])

\* checkArgs_ with the loop over the optional fields copying without validating.
checkArgs_RequiredOnly(resource, required, optional, args) ==
    IF args = Null
    THEN [err |-> error_(resource, "", "missing args"), fixed |-> <<>>]
    ELSE IF \E i \in 1..Len(required) : FieldProblem(args, required[i], TRUE) # ""
    THEN [err |-> error_(resource,
                         required[CHOOSE i \in 1..Len(required) :
                             /\ FieldProblem(args, required[i], TRUE) # ""
                             /\ \A l \in 1..(i - 1) :
                                   FieldProblem(args, required[l], TRUE) = ""][1],
                         "invalid"),
          fixed |-> <<>>]
    ELSE [err |-> NoError,
          fixed |-> [f \in {(required \o optional)[i][1] :
                               i \in 1..(Len(required) + Len(optional))}
                            \cap DOMAIN args |-> args[f]]]

\* checkArgs_ returning args itself instead of the object fixed.
checkArgs_ReturnArgs(resource, required, optional, args) ==
    [checkArgs_RequiredOnly(resource, required \o optional, <<>>, args)
        EXCEPT !.fixed = IF @ = <<>> THEN <<>> ELSE args]

\* checkArgs_(resource, required, optional, args): required and optional are the
\* field tables in their enumeration order, args an object or Null.
checkArgs_(resource, required, optional, args) ==
    IF args = Null
    THEN [err |-> error_(resource, "", "missing args"), fixed |-> <<>>]
    ELSE LET table == required \o optional
             bad == {i \in 1..Len(table) :
                       FieldProblem(args, table[i], i <= Len(required)) # ""}
             fields == {table[i][1] : i \in 1..Len(table)} \cap DOMAIN args
         IN  IF bad # {}
             THEN LET i == CHOOSE j \in bad : \A l \in bad : j <= l
                  IN  [err |-> error_(resource, table[i][1],
                                      FieldProblem(args, table[i], i <= Len(required))),
                       fixed |-> <<>>]
             ELSE [err |-> NoError, fixed |-> [f \in fields |-> args[f]]]

CategoryREQUIRED == << <<"assignment", "validateNonNegInt">>, <<"name", "validateNonEmpty">> >>
CategoryOPTIONAL == << <<"pointLimit", "validateNum">>, <<"helpText", "alwaysValid">>,
                       <<"atMostOnce", "validateBool">>, <<"sortKey", "validateNonNegInt">> >>

\* FlipChecked without the flip.
FlipCheckedNever(res, flip, field, keepNull) == res

\* The sign flip that ends checkArgs: checked[field] = -checked[field], done
\* when flip holds and the field is there (and, with keepNull, is not nullish).
FlipChecked(res, flip, field, keepNull) ==
    IF res.err.kind # "none" THEN res
    ELSE IF flip /\ hasProp_(res.fixed, field)
            /\ ~(keepNull /\ IsNullish(res.fixed[field]))
    THEN [res EXCEPT !.fixed =
             [f \in DOMAIN res.fixed |->
                IF f = field THEN Neg(res.fixed[f]) ELSE res.fixed[f]]]
    ELSE res

\* RubricCategory.checkArgs where updating leaves the required fields required.
CategoryCheckArgsAlwaysRequired(args, updating, creating) ==
    FlipChecked(checkArgs_("RubricCategory",
                           IF ~updating /\ ~creating THEN Tail(CategoryREQUIRED)
                           ELSE CategoryREQUIRED,
                           CategoryOPTIONAL, args),
                updating \/ creating, "pointLimit", TRUE)

\* RubricCategory.checkArgs(args, { updating, creating })
CategoryCheckArgs(args, updating, creating) ==
    FlipChecked(checkArgs_("RubricCategory",
                           IF updating THEN <<>>
                           ELSE IF ~creating THEN Tail(CategoryREQUIRED)
                           ELSE CategoryREQUIRED,
                           IF updating THEN CategoryOPTIONAL \o CategoryREQUIRED
                           ELSE CategoryOPTIONAL,
                           args),
                updating \/ creating, "pointLimit", TRUE)

CommentREQUIRED == << <<"category", "validateNonNegInt">>, <<"name", "validateNonEmpty">>,
                      <<"pointDelta", "validateNum">>, <<"text", "validateNonEmpty">> >>
CommentOPTIONAL == << <<"explanation", "alwaysValid">>, <<"instructionText", "alwaysValid">>,
                      <<"templateTextOn", "validateBool">>, <<"sortKey", "validateNonNegInt">> >>

\* RubricComment.checkArgs(args, { updating, creating })
CommentCheckArgs(args, updating, creating) ==
    FlipChecked(checkArgs_("RubricComment",
                           IF updating THEN <<>>
                           ELSE IF ~creating THEN Tail(CommentREQUIRED)
                           ELSE CommentREQUIRED,
                           IF updating THEN CommentOPTIONAL \o CommentREQUIRED
                           ELSE CommentOPTIONAL,
                           args),
                updating \/ creating, "pointDelta", FALSE)

(***************************************************************************)
(* checkValidRubric_ (src/unnamed/part_004).  The rubric argument is       *)
(* [kind, items]; a category is [kind, args, comKind, comments] with args  *)
(* the category's own properties and comments its comments property; a     *)
(* comment is an object or Null.                                           *)
(***************************************************************************)
\* An exception thrown by checkValidRubric_ or importRubric_ itself (a string).
RubricError(index1, index2, field, reason) ==
    [kind |-> "rubric", function |-> "", cat |-> index1, com |-> index2,
     field |-> field, reason |-> reason]

TypeError == [kind |-> "TypeError", function |-> "", cat |-> 0 - 1, com |-> 0 - 1,
              field |-> "", reason |-> "TypeError"]

\* The comments.map callback of checkValidRubric_, from comment i on;
\* CheckComment is its body for comment i, res being the result of checkArgs.
RECURSIVE CheckComments(_, _, _, _, _)
RECURSIVE CheckComment(_, _, _, _, _, _)
CheckComment(comments, i, index1, seenComments, out, res) ==
    IF res.err.kind # "none"
    THEN [err |-> RubricError(index1, i - 1, res.err.field, res.err.reason),
          seenComments |-> seenComments, out |-> out]
    ELSE IF res.fixed["name"].s \in seenComments
    THEN [err |-> RubricError(index1, i - 1, "name", "not unique"),
          seenComments |-> seenComments, out |-> out]
    ELSE CheckComments(comments, i + 1, index1,
                       seenComments \cup {res.fixed["name"].s},
                       Append(out, res.fixed))

CheckComments(comments, i, index1, seenComments, out) ==
    IF i > Len(comments)
    THEN [err |-> NoError, seenComments |-> seenComments, out |-> out]
    ELSE CheckComment(comments, i, index1, seenComments, out,
                      CommentCheckArgs(comments[i], FALSE, FALSE))

\* What checkValidRubric_ ends with when it throws e.
RubricFail(e) == [err |-> e, givenCategories |-> <<>>, givenComments |-> <<>>]

\* The rubric.forEach callback of checkValidRubric_, from category i on;
\* CheckCategory is its body for category i, res being the result of checkArgs
\* and cc the result of the comments.map of that category.
RECURSIVE CheckCategories(_, _, _, _, _, _)
RECURSIVE CheckCategory(_, _, _, _, _, _, _)
RECURSIVE CheckCategoryComments(_, _, _, _, _, _, _)
CheckCategoryComments(items, i, seenCategories, givenCategories, givenComments, res, cc) ==
    IF cc.err.kind # "none" THEN RubricFail(cc.err)
    ELSE CheckCategories(items, i + 1,
                         seenCategories \cup {res.fixed["name"].s},
                         cc.seenComments,
                         Append(givenCategories, res.fixed),
                         ObjPut(givenComments, res.fixed["name"].s, cc.out))

\* CheckCategory with a set of seen comment names of its own for each category.
CheckCategoryOwnNames(items, i, seenCategories, seenComments, givenCategories, givenComments, res) ==
    IF res.err.kind # "none"
    THEN RubricFail(RubricError(i - 1, 0 - 1, res.err.field, res.err.reason))
    ELSE IF res.fixed["name"].s \in seenCategories
    THEN RubricFail(RubricError(i - 1, 0 - 1, "name", "not unique"))
    ELSE IF items[i].comKind = "missing"
    THEN RubricFail(RubricError(i - 1, 0 - 1, "comments", "missing"))
    ELSE IF items[i].comKind # "array"
    THEN RubricFail(RubricError(i - 1, 0 - 1, "comments", "not an array"))
    ELSE CheckCategoryComments(items, i, seenCategories, givenCategories,
                               givenComments, res,
                               CheckComments(items[i].comments, 1, i - 1, {}, <<>>))

CheckCategory(items, i, seenCategories, seenComments, givenCategories, givenComments, res) ==
    IF res.err.kind # "none"
    THEN RubricFail(RubricError(i - 1, 0 - 1, res.err.field, res.err.reason))
    ELSE IF res.fixed["name"].s \in seenCategories
    THEN RubricFail(RubricError(i - 1, 0 - 1, "name", "not unique"))
    ELSE IF items[i].comKind = "missing"
    THEN RubricFail(RubricError(i - 1, 0 - 1, "comments", "missing"))
    ELSE IF items[i].comKind # "array"
    THEN RubricFail(RubricError(i - 1, 0 - 1, "comments", "not an array"))
    ELSE CheckCategoryComments(items, i, seenCategories, givenCategories,
                               givenComments, res,
                               CheckComments(items[i].comments, 1, i - 1,
                                             seenComments, <<>>))

CheckCategories(items, i, seenCategories, seenComments, givenCategories, givenComments) ==
    IF i > Len(items)
    THEN [err |-> NoError, givenCategories |-> givenCategories,
          givenComments |-> givenComments]
    ELSE IF items[i].kind = "null"
    THEN RubricFail(TypeError)
    ELSE CheckCategory(items, i, seenCategories, seenComments, givenCategories,
                       givenComments,
                       CategoryCheckArgs(items[i].args, FALSE, FALSE))

\* checkValidRubric_(rubric)
checkValidRubric_(r) ==
    IF r.kind = "missing"
    THEN RubricFail(RubricError(0 - 1, 0 - 1, "rubric", "missing"))
    ELSE IF r.kind # "array"
    THEN RubricFail(RubricError(0 - 1, 0 - 1, "rubric", "not an array"))
    ELSE CheckCategories(r.items, 1, {}, {}, <<>>, <<>>)

\* isNumber_(val)
isNumber_(val) ==
    CASE IsNullish(val) -> FALSE
      [] val.t = "str" -> ~IsBlank(val.s) /\ StrToNumber(val.s).t = "num"
      [] val.t = "nan" -> FALSE
      [] OTHER -> TRUE

(***************************************************************************)
(* The remote store behind the resource API.  Its state is                 *)
(* st = [cats, coms, nextId]; a stored resource is an object of JavaScript *)
(* values.  A request is [method, endpoint, id, data]; the answer is       *)
(* [st, code, body, children], children being the id list of the body      *)
(* (a category's rubricComments, an assignment's rubricCategories).        *)
(***************************************************************************)
ASSIGNMENTS_ == "assignments/"
RUBRIC_CATEGORIES_ == "rubricCategories/"
RUBRIC_COMMENTS_ == "rubricComments/"
SUBMISSIONS_ == "submissions/"

\* The id of the one assignment the store holds.
StoreAssignment == 7

\* Whether the store lists a before b: by sortKey then id, or by id.
Before(order, a, b) ==
    IF order = "sortKey" /\ a["sortKey"].n # b["sortKey"].n
    THEN a["sortKey"].n < b["sortKey"].n
    ELSE a["id"].n < b["id"].n

RECURSIVE IdsInOrder(_, _)
IdsInOrder(order, S) ==
    IF S = {} THEN <<>>
    ELSE LET m == CHOOSE x \in S : \A y \in S \ {x} : Before(order, x, y)
         IN  <<m["id"].n>> \o IdsInOrder(order, S \ {m})

Merge(base, patch) ==
    [f \in DOMAIN base \cup DOMAIN patch |->
        IF f \in DOMAIN patch THEN patch[f] ELSE base[f]]

CategoryDefaults ==
    [pointLimit |-> Null, helpText |-> Str(""), atMostOnce |-> Bool(FALSE),
     sortKey |-> Num(0)]
CommentDefaults ==
    [explanation |-> Str(""), instructionText |-> Str(""),
     templateTextOn |-> Bool(FALSE), sortKey |-> Num(0)]

Answer(st, code, body, children) ==
    [st |-> st, code |-> code, body |-> body, children |-> children]

Live(S, id) == \E x \in S : x["id"].n = id
ById(S, id) == CHOOSE x \in S : x["id"].n = id

\* One request served by the store.
RemoteStep(order, st, req) ==
    LET isCat == req.endpoint = RUBRIC_CATEGORIES_
        S == IF isCat THEN st.cats ELSE st.coms
        kids(id) == IdsInOrder(order, {c \in st.coms : c["category"] = Num(id)})
        parentOk(d) == ~hasProp_(d, "category")
                       \/ (d["category"].t = "num" /\ Live(st.cats, d["category"].n))
    IN  CASE req.endpoint = ASSIGNMENTS_ ->
                 IF req.method = "GET" /\ req.id = StoreAssignment
                 THEN Answer(st, 200, [id |-> Num(req.id)],
                             IdsInOrder(order,
                                 {c \in st.cats : c["assignment"] = Num(req.id)}))
                 ELSE Answer(st, 404, <<>>, <<>>)
          [] req.endpoint = SUBMISSIONS_ ->
                 IF req.method = "GET" /\ req.id = StoreAssignment
                 THEN Answer(st, 200, <<>>, <<>>)
                 ELSE Answer(st, 404, <<>>, <<>>)
          [] req.method = "POST" ->
                 IF isCat
                 THEN LET new == Merge(CategoryDefaults,
                                       Merge(req.data, [id |-> Num(st.nextId)]))
                      IN  Answer([st EXCEPT !.cats = @ \cup {new}, !.nextId = @ + 1],
                                 201, new, <<>>)
                 ELSE IF ~parentOk(req.data) \/ ~hasProp_(req.data, "category")
                 THEN Answer(st, 400, <<>>, <<>>)
                 ELSE LET new == Merge(CommentDefaults,
                                       Merge(req.data, [id |-> Num(st.nextId)]))
                      IN  Answer([st EXCEPT !.coms = @ \cup {new}, !.nextId = @ + 1],
                                 201, new, <<>>)
          [] ~Live(S, req.id) -> Answer(st, 404, <<>>, <<>>)
          [] req.method = "GET" ->
                 Answer(st, 200, ById(S, req.id), IF isCat THEN kids(req.id) ELSE <<>>)
          [] req.method = "PATCH" ->
                 IF ~isCat /\ ~parentOk(req.data)
                 THEN Answer(st, 400, <<>>, <<>>)
                 ELSE LET new == Merge(ById(S, req.id), req.data)
                          T == (S \ {ById(S, req.id)}) \cup {new}
                      IN  Answer(IF isCat THEN [st EXCEPT !.cats = T]
                                 ELSE [st EXCEPT !.coms = T],
                                 200, new, IF isCat THEN kids(req.id) ELSE <<>>)
          [] OTHER ->   \* DELETE: a category takes its comments with it
                 Answer(IF isCat
                        THEN [st EXCEPT !.cats = {c \in @ : c["id"].n # req.id},
                                        !.coms = {c \in @ : c["category"] # Num(req.id)}]
                        ELSE [st EXCEPT !.coms = {c \in @ : c["id"].n # req.id}],
                        204, <<>>, <<>>)

\* UrlFetchApp.fetchAll(requests): every request of the batch is served; the
\* answers come back in the order of the requests.
RECURSIVE fetchAll(_, _, _, _)
fetchAll(order, st, requests, answers) ==
    IF Len(answers) = Len(requests)
    THEN [st |-> st, answers |-> answers]
    ELSE LET a == RemoteStep(order, st, requests[Len(answers) + 1])
         IN  fetchAll(order, a.st, requests, Append(answers, a))

(***************************************************************************)
(* Batched request layer (src/unnamed/part_003).  An item of a batch is    *)
(* [kind, id, hasData, data]: kind "bare" is a bare value (id), "obj" an   *)
(* object with the properties id and data (Undef when absent), "null" a    *)
(* missing item; for POST the payload is the item's data.                  *)
(***************************************************************************)
BareItem(v) == [kind |-> "bare", id |-> v, hasData |-> FALSE, data |-> <<>>]
PatchItem(id, d) == [kind |-> "obj", id |-> id, hasData |-> TRUE, data |-> d]

\* METHODS_ with one success code for every method.
METHODS_AlwaysOK(method) == 200

\* METHODS_: the success response code of a method.
METHODS_(method) ==
    CASE method = "GET" -> 200
      [] method = "POST" -> 201
      [] method = "PATCH" -> 200
      [] OTHER -> 204

FetchError(method, index, reason) ==
    [kind |-> "fetch", function |-> "fetch()", cat |-> index, com |-> 0 - 1,
     field |-> method, reason |-> reason]

\* The number a value renders as in an endpoint, 0 - 1 if it renders as no id.
IdOf(v) ==
    CASE v.t = "num" -> v.n
      [] v.t = "str" /\ StrToNumber(v.s).t = "num" /\ ~IsBlank(v.s) -> StrToNumber(v.s).n
      [] OTHER -> 0 - 1

\* ItemProblem without the test of request.id for PATCH: an item with data
\* and no id passes.
ItemProblemNoIdTest(method, request) ==
    CASE method = "POST" ->
             IF request.kind = "null" THEN "missing data" ELSE ""
      [] method = "PATCH" ->
             IF request.kind = "null" THEN "missing"
             ELSE IF ~request.hasData THEN "missing data"
             ELSE ""
      [] OTHER ->
             IF request.kind = "bare" /\ isNumber_(request.id) THEN ""
             ELSE IF request.kind = "null"
                     \/ (request.kind = "bare" /\ IsNullish(request.id))
             THEN "TypeError"
             ELSE IF ~isNumber_(request.id) THEN "has no id"
             ELSE ""

\* What the data.forEach callback of fetch_ throws for item request, "" if nothing.
ItemProblem(method, request) ==
    CASE method = "POST" ->
             IF request.kind = "null" THEN "missing data" ELSE ""
      [] method = "PATCH" ->
             IF request.kind = "null" THEN "missing"
             ELSE IF ~request.hasData THEN "missing data"
             ELSE IF IsNullish(request.id) THEN "missing id"
             ELSE ""
      [] OTHER ->
             IF request.kind = "bare" /\ isNumber_(request.id) THEN ""
             ELSE IF request.kind = "null"
                     \/ (request.kind = "bare" /\ IsNullish(request.id))
             THEN "TypeError"
             ELSE IF ~isNumber_(request.id) THEN "has no id"
             ELSE ""

\* The request fetch_ builds for an item.
RequestOf(method, endpoint, request) ==
    [method |-> method, endpoint |-> endpoint,
     id |-> IF method = "POST" THEN 0 ELSE IdOf(request.id),
     data |-> IF method \in {"POST", "PATCH"} THEN Json(request.data) ELSE <<>>]

\* A request as the log keeps it.
Sent(req, code, batch) ==
    [method |-> req.method, endpoint |-> req.endpoint, id |-> req.id,
     data |-> req.data, code |-> code, batch |-> batch]

\* What an accessor that throws e before it sends a request yields.
Thrown(e, st) == [err |-> e, st |-> st, results |-> <<>>, sent |-> <<>>, logged |-> 0]

\* The least member of a non-empty set of indices.
First(S) == CHOOSE j \in S : \A l \in S : j <= l

\* A value that counts as false in a condition.
Falsy(v) == IsNullish(v) \/ v.t = "nan" \/ v \in {Str(""), Num(0), Bool(FALSE)}

\* parsed.detail || JSON.stringify(parsed) of processResult_: the detail of
\* the body, or the body itself (standing for its text) when it has none.
Detail(body) ==
    IF hasProp_(body, "detail") /\ ~Falsy(body["detail"]) THEN body["detail"] ELSE body

\* What processResult_ throws for the response to request (number index of the
\* batch): the method, the endpoint with the id, the detail.
StatusError(method, index, request, body) ==
    Merge(FetchError(method, index, "status"),
          [f \in {"path", "detail"} |->
              IF f = "path" THEN <<request.endpoint, request.id>> ELSE Detail(body)])

\* responses.map(processResult_) when response i is the first without the
\* success code: it throws there, after i responses were parsed and logged.
ResponsesThrow(method, batch, requests, got, i) ==
    [err |-> StatusError(method, i - 1, requests[i], got.answers[i].body),
     st |-> got.st, results |-> <<>>,
     sent |-> [k \in 1..Len(requests) |-> Sent(requests[k], got.answers[k].code, batch)],
     logged |-> i]

\* responses.map(processResult_) of fetch_ for the answers got: the first
\* response whose code is not the method's success code throws.
Responses(method, batch, requests, got) ==
    IF \E i \in 1..Len(requests) : got.answers[i].code # METHODS_(method)
    THEN ResponsesThrow(method, batch, requests, got,
                        First({i \in 1..Len(requests) :
                                  got.answers[i].code # METHODS_(method)}))
    ELSE [err |-> NoError, st |-> got.st,
          results |-> [i \in 1..Len(requests) |->
                         [o |-> got.answers[i].body,
                          children |-> got.answers[i].children]],
          sent |-> [i \in 1..Len(requests) |->
                      Sent(requests[i], got.answers[i].code, batch)],
          logged |-> Len(requests)]

\* UrlFetchApp.fetchAll(requests) of fetch_ and the parse of its responses.
Dispatch(method, order, st, batch, requests) ==
    Responses(method, batch, requests, fetchAll(order, st, requests, <<>>))

\* The index of the first item of data that the forEach callback rejects.
FirstProblem(method, data) ==
    First({i \in 1..Len(data) : ItemProblem(method, data[i]) # ""})

\* What the forEach callback throws at item number index: an error_ of
\* fetch(), or the TypeError of reading the id of null.
ItemError(method, index, problem) ==
    IF problem = "TypeError" THEN TypeError ELSE FetchError(method, index, problem)

\* A string as the sequence of its characters: "/a/" is <<"/", "a", "/">>.
startsWith(string, char) == string # <<>> /\ string[1] = char
endsWith(string, char) == string # <<>> /\ string[Len(string)] = char
substring(string, start) == SubSeq(string, start + 1, Len(string))

\* fixEndpoint_(endpoint), lines 32-40.
fixEndpoint_(endpoint) ==
    LET stripped == IF startsWith(endpoint, "/") THEN substring(endpoint, 1)
                    ELSE endpoint
    IN  IF ~endsWith(stripped, "/") THEN stripped \o <<"/">> ELSE stripped

\* What makeOptions_ throws when configGet("API_KEY") is null.
ConfigError ==
    [kind |-> "config", function |-> "fetch()", cat |-> 0 - 1, com |-> 0 - 1,
     field |-> "API_KEY", reason |-> "not found"]

\* makeOptions_ with the test of the key left out: it never throws.
makeOptions_AnyKey == NoError

\* makeOptions_(method): the exception it throws, NoError when it returns the
\* options.
makeOptions_ == IF IsNullish(apiKey) THEN ConfigError ELSE NoError

\* The data.forEach loop of fetch_ (lines 113-161): [err, requests].  The
\* callback calls makeOptions_ before it looks at the item.
Built(method, endpoint, data) ==
    IF data # <<>> /\ makeOptions_.kind # "none"
    THEN [err |-> makeOptions_, requests |-> <<>>]
    ELSE IF \E i \in 1..Len(data) : ItemProblem(method, data[i]) # ""
    THEN [err |-> ItemError(method, FirstProblem(method, data) - 1,
                            ItemProblem(method, data[FirstProblem(method, data)])),
          requests |-> <<>>]
    ELSE [err |-> NoError,
          requests |-> [i \in 1..Len(data) |-> RequestOf(method, endpoint, data[i])]]

\* ShortCircuit with the test left out: fetch_ goes on to UrlFetchApp.
NeverShortCircuit(requests) == FALSE

\* requests.length === 0 (line 163)
ShortCircuit(requests) == requests = <<>>

\* fetch_ after its forEach loop yielded b.
FetchBuilt(b, method, order, st, batch) ==
    IF b.err.kind # "none" THEN Thrown(b.err, st)
    ELSE IF ShortCircuit(b.requests) THEN Thrown(NoError, st)
    ELSE Dispatch(method, order, st, batch, b.requests)

\* fetch_(method, endpoint, data) run against store state st as batch number
\* batch: [err, st, results, sent, logged].
fetch_(method, endpoint, data, order, st, batch) ==
    FetchBuilt(Built(method, endpoint, data), method, order, st, batch)

\* fetchOne_(method, endpoint) for the GET requests of class Assignment.
fetchOne_(method, endpoint, id, order, st, batch) ==
    IF makeOptions_.kind # "none" THEN Thrown(makeOptions_, st)
    ELSE Dispatch(method, order, st, batch,
                  <<[method |-> method, endpoint |-> endpoint, id |-> IdOf(id),
                     data |-> <<>>]>>)

(***************************************************************************)
(* Resource accessors (src/gas/3_CodePost.js).  Each runs against store    *)
(* state st as batch number batch and yields [err, st, results, sent].     *)
(***************************************************************************)
Get(obj, f) == IF f \in DOMAIN obj THEN obj[f] ELSE Undef

\* The first exception among the results of a checkArgs map, NoError if none.
FirstError(res) ==
    IF \A i \in 1..Len(res) : res[i].err.kind = "none" THEN NoError
    ELSE res[First({i \in 1..Len(res) : res[i].err.kind # "none"})].err

\* The sign flip of getByIds on one fetched object.
FlipFetched(r, field, keepNull) ==
    IF keepNull /\ IsNullish(Get(r.o, field)) THEN r
    ELSE [r EXCEPT !.o = Merge(r.o, [x \in {field} |-> Neg(Get(r.o, field))])]

\* The flipping map of getByIds over the result r of fetch_.
FlipAll(r, field, keepNull) ==
    [r EXCEPT !.results =
        [i \in 1..Len(r.results) |-> FlipFetched(r.results[i], field, keepNull)]]

\* RubricCategory.getByIds(ids)
CategoryGetByIds(ids, order, st, batch) ==
    FlipAll(fetch_("GET", RUBRIC_CATEGORIES_,
                   [i \in 1..Len(ids) |-> BareItem(Num(ids[i]))], order, st, batch),
            "pointLimit", TRUE)

\* RubricComment.getByIds(ids)
CommentGetByIds(ids, order, st, batch) ==
    FlipAll(fetch_("GET", RUBRIC_COMMENTS_,
                   [i \in 1..Len(ids) |-> BareItem(Num(ids[i]))], order, st, batch),
            "pointDelta", FALSE)

\* The tail of createAll and updateAll: checked is the data.map(checkArgs)
\* result, which throws at its first invalid element; else the batch is sent
\* with the checked payloads (ids[i] is Undef for createAll).
SendChecked(method, endpoint, ids, checked, order, st, batch) ==
    IF FirstError(checked).kind # "none" THEN Thrown(FirstError(checked), st)
    ELSE fetch_(method, endpoint,
                [i \in 1..Len(checked) |-> PatchItem(ids[i], checked[i].fixed)],
                order, st, batch)

\* RubricCategory.createAll(data)
CategoryCreateAll(data, order, st, batch) ==
    SendChecked("POST", RUBRIC_CATEGORIES_, [i \in 1..Len(data) |-> Undef],
                [i \in 1..Len(data) |-> CategoryCheckArgs(data[i], FALSE, TRUE)],
                order, st, batch)

\* RubricComment.createAll(data)
CommentCreateAll(data, order, st, batch) ==
    SendChecked("POST", RUBRIC_COMMENTS_, [i \in 1..Len(data) |-> Undef],
                [i \in 1..Len(data) |-> CommentCheckArgs(data[i], FALSE, TRUE)],
                order, st, batch)

\* RubricCategory.updateAll(data), data a list of [id, data]
CategoryUpdateAll(data, order, st, batch) ==
    SendChecked("PATCH", RUBRIC_CATEGORIES_, [i \in 1..Len(data) |-> data[i].id],
                [i \in 1..Len(data) |-> CategoryCheckArgs(data[i].data, TRUE, FALSE)],
                order, st, batch)

\* RubricComment.updateAll(data), data a list of [id, data]
CommentUpdateAll(data, order, st, batch) ==
    SendChecked("PATCH", RUBRIC_COMMENTS_, [i \in 1..Len(data) |-> data[i].id],
                [i \in 1..Len(data) |-> CommentCheckArgs(data[i].data, TRUE, FALSE)],
                order, st, batch)

\* RubricCategory.deleteAll(ids), ids a list of JavaScript values
CategoryDeleteAll(ids, order, st, batch) ==
    fetch_("DELETE", RUBRIC_CATEGORIES_,
           [i \in 1..Len(ids) |-> BareItem(ids[i])], order, st, batch)

\* RubricComment.deleteAll(ids)
CommentDeleteAll(ids, order, st, batch) ==
    fetch_("DELETE", RUBRIC_COMMENTS_,
           [i \in 1..Len(ids) |-> BareItem(ids[i])], order, st, batch)

\* Assignment.getById(assignmentId)
AssignmentGetById(id, order, st, batch) ==
    fetchOne_("GET", ASSIGNMENTS_, id, order, st, batch)

\* Assignment.getSubmissions(assignmentId)
AssignmentGetSubmissions(id, order, st, batch) ==
    fetchOne_("GET", SUBMISSIONS_, id, order, st, batch)

(***************************************************************************)
(* The reconciliation engine importRubric_ (src/unnamed/part_004): its     *)
(* computations between two requests, as operators.                        *)
(***************************************************************************)
\* WithKeys with the spread last, {category/assignment: parent, sortKey:
\* sortKey, ...obj}: a sortKey the given object carries wins.
WithKeysGivenLast(obj, parentField, parent, sortKey) ==
    [f \in DOMAIN obj \cup {parentField, "sortKey"} |->
        IF f \in DOMAIN obj THEN obj[f]
        ELSE IF f = "sortKey" THEN sortKey ELSE parent]

\* {...obj, category/assignment: parent, sortKey: sortKey}
WithKeys(obj, parentField, parent, sortKey) ==
    Merge(obj, [f \in {parentField, "sortKey"} |->
                   IF f = "sortKey" THEN sortKey ELSE parent])

\* UpdateOf with the extra pairs left out: the category and sortKey of a
\* matched resource are never sent.
UpdateOfFields(existing, given, fields, extras) ==
    [f \in {g \in fields : hasProp_(given, g) /\ ~StrictEq(Get(existing, g), given[g])} |->
        given[f]]

\* UpdateOf with the comparison of the extra pairs left out: the category and
\* sortKey of a matched resource are always sent.
UpdateOfAlways(existing, given, fields, extras) ==
    [f \in {g \in fields : hasProp_(given, g) /\ ~StrictEq(Get(existing, g), given[g])}
           \cup {extras[i][1] : i \in 1..Len(extras)} |->
        IF \E i \in 1..Len(extras) : extras[i][1] = f
        THEN extras[CHOOSE i \in 1..Len(extras) : extras[i][1] = f][2]
        ELSE given[f]]

\* UpdateOf sending the whole given object with the differing fields: a
\* changed resource is sent its name again.
UpdateOfWholeGiven(existing, given, fields, extras) ==
    IF /\ \A f \in fields : hasProp_(given, f) => StrictEq(Get(existing, f), given[f])
       /\ \A i \in 1..Len(extras) : StrictEq(Get(existing, extras[i][1]), extras[i][2])
    THEN <<>>
    ELSE Merge([f \in DOMAIN given \cap (fields \cup {"name"}) |-> given[f]],
               UpdateOfAlways(existing, given, fields, extras))

\* The update object of one matched resource: the listed fields the given
\* object has and that differ, then the extra [field, value] pairs that differ.
UpdateOf(existing, given, fields, extras) ==
    LET changed == {f \in fields : hasProp_(given, f)
                                    /\ ~StrictEq(Get(existing, f), given[f])}
        more == {i \in 1..Len(extras) :
                    ~StrictEq(Get(existing, extras[i][1]), extras[i][2])}
    IN  [f \in changed \cup {extras[i][1] : i \in more} |->
            IF f \in changed THEN given[f]
            ELSE extras[CHOOSE i \in more : extras[i][1] = f][2]]

EmptyDiff == [existing |-> <<>>, create |-> <<>>, update |-> <<>>]

\* The givenCategories.forEach callback (lines 163-201), from category i on;
\* d = [existing, create, update] are existingCategories, createCategories
\* and updateCategories.
RECURSIVE DiffCategories(_, _, _, _, _)
DiffCategories(givenCategories, i, cpCategories, asg, d) ==
    IF i > Len(givenCategories) THEN d
    ELSE LET category == givenCategories[i]
             name == category["name"].s
             sortKey == Num(i - 1)
         IN  IF ~SeqHas(d.existing, name)
             THEN DiffCategories(givenCategories, i + 1, cpCategories, asg,
                      [d EXCEPT !.create =
                          Append(@, WithKeys(category, "assignment", asg, sortKey))])
             ELSE LET existing == ObjGet(cpCategories, name).o
                      update == UpdateOf(existing, category,
                                         {"pointLimit", "helpText", "atMostOnce"},
                                         << <<"sortKey", sortKey>> >>)
                      rest == [d EXCEPT !.existing = SeqRemove(@, name)]
                  IN  DiffCategories(givenCategories, i + 1, cpCategories, asg,
                          IF DOMAIN update # {}
                          THEN [rest EXCEPT !.update =
                                   Append(@, [id |-> Get(existing, "id"), data |-> update])]
                          ELSE rest)

\* ExtraCategoryUpdates with the offset left out: the extra categories are
\* numbered from 0 (and each is sent).
ExtraCategoryUpdatesFromZero(categories, cpCategories, offset) ==
    [i \in 1..Len(categories) |->
        [id |-> Get(ObjGet(cpCategories, categories[i]).o, "id"),
         data |-> [sortKey |-> Num(i - 1)]]]

\* The "sort at bottom" loop over the extra categories (lines 216-228).
ExtraCategoryUpdates(categories, cpCategories, offset) ==
    LET moved == {i \in 1..Len(categories) :
                    ~StrictEq(Get(ObjGet(cpCategories, categories[i]).o, "sortKey"),
                              Num(offset + i - 1))}
        all == [i \in 1..Len(categories) |->
                  [id |-> Get(ObjGet(cpCategories, categories[i]).o, "id"),
                   data |-> [sortKey |-> Num(offset + i - 1)],
                   moved |-> i \in moved]]
        kept == SelectSeq(all, LAMBDA u : u.moved)
    IN  [i \in 1..Len(kept) |-> [id |-> kept[i].id, data |-> kept[i].data]]

\* The comments.forEach callback (lines 247-295) for the comments of one given
\* category, from comment i on.
RECURSIVE DiffCommentsOf(_, _, _, _, _)
DiffCommentsOf(comments, i, categoryId, cpComments, d) ==
    IF i > Len(comments) THEN d
    ELSE LET comment == comments[i]
             name == comment["name"].s
             sortKey == Num(i - 1)
         IN  IF ~SeqHas(d.existing, name)
             THEN DiffCommentsOf(comments, i + 1, categoryId, cpComments,
                      [d EXCEPT !.create =
                          Append(@, WithKeys(comment, "category", categoryId, sortKey))])
             ELSE LET existing == ObjGet(cpComments, name).o
                      update == UpdateOf(existing, comment,
                                         {"text", "pointDelta", "explanation",
                                          "instructionText", "templateTextOn"},
                                         << <<"category", categoryId>>,
                                            <<"sortKey", sortKey>> >>)
                      rest == [d EXCEPT !.existing = SeqRemove(@, name)]
                  IN  DiffCommentsOf(comments, i + 1, categoryId, cpComments,
                          IF DOMAIN update # {}
                          THEN [rest EXCEPT !.update =
                                   Append(@, [id |-> Get(existing, "id"), data |-> update])]
                          ELSE rest)

\* finalCategories[categoryName], undefined when the name is no key
Lookup(obj, k) == IF ObjHas(obj, k) THEN ObjGet(obj, k) ELSE Undef

\* The Object.entries(givenComments).forEach callback (lines 244-296), from
\* entry i on.
RECURSIVE DiffComments(_, _, _, _, _)
DiffComments(givenComments, i, finalCategories, cpComments, d) ==
    IF i > Len(givenComments) THEN d
    ELSE DiffComments(givenComments, i + 1, finalCategories, cpComments,
             DiffCommentsOf(givenComments[i].v, 1,
                            Lookup(finalCategories, givenComments[i].k), cpComments, d))

\* sortKeys with 0 in place of comments.length: the extra comments of a
\* category are numbered from 0.
SortKeysFromZero(givenComments, finalCategories) ==
    [id \in {Lookup(finalCategories, givenComments[i].k).n :
                i \in 1..Len(givenComments)} |-> 0]

\* sortKeys (lines 309-314): category id -> next sortKey, a function on the
\* ids of the given categories.
SortKeysOf(givenComments, finalCategories) ==
    LET ids == {Lookup(finalCategories, givenComments[i].k).n :
                   i \in 1..Len(givenComments)}
    IN  [id \in ids |->
            Len(givenComments[CHOOSE i \in 1..Len(givenComments) :
                    Lookup(finalCategories, givenComments[i].k).n = id
                    /\ \A j \in 1..Len(givenComments) :
                          Lookup(finalCategories, givenComments[j].k).n = id => j <= i].v)]

\* The "sort at bottom of their categories" loop (lines 316-327), from comment
\* i on: sortKeys[comment.category]++ is NaN for a category sortKeys lacks.
RECURSIVE ExtraCommentUpdates(_, _, _, _, _)
ExtraCommentUpdates(comments, i, cpComments, sortKeys, updates) ==
    IF i > Len(comments) THEN updates
    ELSE LET comment == ObjGet(cpComments, comments[i]).o
             category == Get(comment, "category").n
             known == category \in DOMAIN sortKeys
             sortKey == IF known THEN Num(sortKeys[category]) ELSE NaN
             next == IF known THEN [sortKeys EXCEPT ![category] = @ + 1] ELSE sortKeys
         IN  ExtraCommentUpdates(comments, i + 1, cpComments, next,
                 IF ~StrictEq(Get(comment, "sortKey"), sortKey)
                 THEN Append(updates, [id |-> Get(comment, "id"),
                                       data |-> [sortKey |-> sortKey]])
                 ELSE updates)

(***************************************************************************)
(* importRubric_ as a process: one action per request batch, with the      *)
(* local computation that precedes it.                                     *)
(***************************************************************************)
YES_ == 0
NO_ == 1
CANCEL_ == 2

\* The most calls of importRubric_ in a behaviour.
MaxRuns == 2

\* No direct call of the request layer is under way.
NoCall ==
    [fn |-> "none", method |-> "", endpoint |-> "", data |-> <<>>, pc |-> "none",
     requests |-> <<>>, responses |-> <<>>, done |-> <<>>, fanouts |-> 0,
     logged |-> 0, result |-> <<>>, err |-> NoError]

EmptyLoc ==
    [givenCategories |-> <<>>, givenComments |-> <<>>, rubricCategories |-> <<>>,
     cpCategories |-> <<>>, cpComments |-> <<>>, finalCategories |-> <<>>,
     existingCategories |-> <<>>, createCategories |-> <<>>,
     updateCategories |-> <<>>, existingComments |-> <<>>,
     createComments |-> <<>>, updateComments |-> <<>>]

St == [cats |-> cats, coms |-> coms, nextId |-> nextId]

\* The number of the next request batch of this call.
Batch == IF log = <<>> THEN 1 ELSE log[Len(log)].batch + 1

Args == <<listOrder, subs, assignmentId, rubric, wipe, deleteExtra, run, pre, prevOk,
          call, apiKey>>

\* Finish with the exception swallowed: the call notes it and goes on to the
\* next step.
FinishAndGoOn(r, nextPc, newLoc) ==
    /\ cats' = r.st.cats
    /\ coms' = r.st.coms
    /\ nextId' = r.st.nextId
    /\ log' = log \o r.sent
    /\ pc' = nextPc
    /\ err' = IF r.err.kind # "none" THEN r.err ELSE err
    /\ loc' = IF r.err.kind # "none" THEN loc ELSE newLoc
    /\ UNCHANGED Args

\* The end of an action that ran accessor call r: the store and the log take
\* its effect; an exception ends the call, else control moves to nextPc with
\* the locals newLoc.
Finish(r, nextPc, newLoc) ==
    /\ cats' = r.st.cats
    /\ coms' = r.st.coms
    /\ nextId' = r.st.nextId
    /\ log' = log \o r.sent
    /\ IF r.err.kind # "none"
       THEN pc' = "failed" /\ err' = r.err /\ loc' = loc
       ELSE pc' = nextPc /\ err' = err /\ loc' = newLoc
    /\ UNCHANGED Args

\* Lines 74-83: the checks of assignmentId and checkValidRubric_(rubric).
\* importRubric_ is not called while a direct call of the request layer is
\* under way (one thread of control).
Start ==
    /\ pc = "idle"
    /\ call = NoCall
    /\ \E v \in {checkValidRubric_(rubric)} :
          \E e \in {IF IsNullish(assignmentId)
                    THEN RubricError(0 - 1, 0 - 1, "assignmentId", "missing")
                    ELSE IF ~isNumber_(assignmentId)
                    THEN RubricError(0 - 1, 0 - 1, "assignmentId",
                                     "invalid (not a number)")
                    ELSE v.err} :
             IF e.kind # "none"
             THEN pc' = "failed" /\ err' = e /\ loc' = loc
             ELSE /\ pc' = "getAssignment"
                  /\ err' = err
                  /\ loc' = [loc EXCEPT !.givenCategories = v.givenCategories,
                                        !.givenComments = v.givenComments]
    /\ UNCHANGED <<cats, coms, nextId, log, asked>>
    /\ UNCHANGED Args

\* Line 86: Assignment.getById(assignmentId).
GetAssignment ==
    /\ pc = "getAssignment"
    /\ \E r \in {AssignmentGetById(assignmentId, listOrder, St, Batch)} :
          Finish(r, "getSubmissions",
                 [loc EXCEPT !.rubricCategories = r.results[1].children])
    /\ UNCHANGED asked

\* GetSubmissions with the test of wantContinue left out: the call goes on
\* whatever the answer.
GetSubmissionsAnyAnswer ==
    /\ pc = "getSubmissions"
    /\ \E r \in {AssignmentGetSubmissions(assignmentId, listOrder, St, Batch)} :
          /\ IF r.err.kind = "none" /\ subs > 0
             THEN asked' \in {YES_, NO_, CANCEL_}
             ELSE asked' = asked
          /\ Finish(r, IF wipe THEN "wipeDelete" ELSE "getCategories", loc)

\* Lines 89-97: Assignment.getNumSubmissions(assignmentId) and askYesNo_.
GetSubmissions ==
    /\ pc = "getSubmissions"
    /\ \E r \in {AssignmentGetSubmissions(assignmentId, listOrder, St, Batch)} :
          IF r.err.kind = "none" /\ subs > 0
          THEN \E wantContinue \in {YES_, NO_, CANCEL_} :
                  /\ asked' = wantContinue
                  /\ Finish(r, IF wantContinue # YES_ THEN "done"
                               ELSE IF wipe THEN "wipeDelete" ELSE "getCategories",
                            loc)
          ELSE /\ asked' = asked
               /\ Finish(r, IF wipe THEN "wipeDelete" ELSE "getCategories", loc)

\* Line 101: RubricCategory.deleteAll(assignment.rubricCategories).
WipeDelete ==
    /\ pc = "wipeDelete"
    /\ LET ids == [i \in 1..Len(loc.rubricCategories) |-> Num(loc.rubricCategories[i])]
       IN  Finish(CategoryDeleteAll(ids, listOrder, St, Batch), "wipeCategories", loc)
    /\ UNCHANGED asked

\* Lines 104-117: create the given categories, keep name -> id.
WipeCategories ==
    /\ pc = "wipeCategories"
    /\ \E data \in {[i \in 1..Len(loc.givenCategories) |->
                        WithKeys(loc.givenCategories[i], "assignment", assignmentId,
                                 Num(i - 1))]} :
          \E r \in {CategoryCreateAll(data, listOrder, St, Batch)} :
             Finish(r, "wipeComments",
                    [loc EXCEPT !.createCategories = data,
                                !.finalCategories =
                                    ObjFromEntries(
                                        [i \in 1..Len(r.results) |->
                                           [k |-> r.results[i].o["name"].s,
                                            v |-> r.results[i].o["id"]]])])
    /\ UNCHANGED asked

\* Lines 119-132: create the given comments under the created categories.
WipeComments ==
    /\ pc = "wipeComments"
    /\ \E data \in {Flatten(
                       [i \in 1..Len(loc.givenComments) |->
                          [j \in 1..Len(loc.givenComments[i].v) |->
                             WithKeys(loc.givenComments[i].v[j], "category",
                                      Lookup(loc.finalCategories, loc.givenComments[i].k),
                                      Num(j - 1))]])} :
          Finish(CommentCreateAll(data, listOrder, St, Batch), "done",
                 [loc EXCEPT !.createComments = data])
    /\ UNCHANGED asked

\* Lines 137-142: cpCategories, category name -> category.
GetCategories ==
    /\ pc = "getCategories"
    /\ \E r \in {CategoryGetByIds(loc.rubricCategories, listOrder, St, Batch)} :
          Finish(r, "getComments",
                 [loc EXCEPT !.cpCategories =
                     ObjFromEntries(
                         [i \in 1..Len(r.results) |->
                            [k |-> r.results[i].o["name"].s, v |-> r.results[i]]])])
    /\ UNCHANGED asked

\* Lines 144-157: cpComments, finalCategories and existingCategories.
GetComments ==
    /\ pc = "getComments"
    /\ \E categories \in {ObjValues(loc.cpCategories)} :
          \E r \in {CommentGetByIds(
                        Flatten([i \in 1..Len(categories) |-> categories[i].children]),
                        listOrder, St, Batch)} :
             Finish(r, "createCategories",
                    [loc EXCEPT
                        !.cpComments =
                            ObjFromEntries(
                                [i \in 1..Len(r.results) |->
                                   [k |-> r.results[i].o["name"].s,
                                    v |-> r.results[i]]]),
                        !.finalCategories =
                            ObjFromEntries(
                                [i \in 1..Len(categories) |->
                                   [k |-> categories[i].o["name"].s,
                                    v |-> categories[i].o["id"]]]),
                        !.existingCategories = ObjKeys(loc.cpCategories)])
    /\ UNCHANGED asked

\* PutIds recording the id 0 for every created category.
PutIdsZero(finalCategories, results, i) ==
    ObjFromEntriesFrom([n \in 1..Len(results) |->
                          [k |-> results[n].o["name"].s, v |-> Num(0)]],
                       i, finalCategories)

\* finalCategories[category.name] = category.id for each object of results
RECURSIVE PutIds(_, _, _)
PutIds(finalCategories, results, i) ==
    IF i > Len(results) THEN finalCategories
    ELSE PutIds(ObjPut(finalCategories, results[i].o["name"].s, results[i].o["id"]),
                results, i + 1)

\* Lines 159-206: the diff of the given categories and RubricCategory.createAll.
CreateCategories ==
    /\ pc = "createCategories"
    /\ \E d \in {DiffCategories(loc.givenCategories, 1, loc.cpCategories,
                                 assignmentId,
                                 [EmptyDiff EXCEPT !.existing = loc.existingCategories])} :
          \E r \in {CategoryCreateAll(d.create, listOrder, St, Batch)} :
             Finish(r, "extraCategories",
                    [loc EXCEPT !.existingCategories = d.existing,
                                !.createCategories = d.create,
                                !.updateCategories = d.update,
                                !.finalCategories = PutIds(@, r.results, 1)])
    /\ UNCHANGED asked

\* ExtraCategories with the test of deleteExtra left out: the categories that
\* were not given are deleted whatever the option.
ExtraCategoriesAlwaysDelete ==
    /\ pc = "extraCategories"
    /\ IF loc.existingCategories # <<>>
       THEN Finish(CategoryDeleteAll(
                       [i \in 1..Len(loc.existingCategories) |->
                          Get(ObjGet(loc.cpCategories, loc.existingCategories[i]).o,
                              "id")],
                       listOrder, St, Batch),
                   "updateCategories", loc)
       ELSE Finish(Thrown(NoError, St), "updateCategories", loc)
    /\ UNCHANGED asked

\* Lines 208-230: the categories in codePost that were not given.
ExtraCategories ==
    /\ pc = "extraCategories"
    /\ IF loc.existingCategories # <<>> /\ deleteExtra
       THEN Finish(CategoryDeleteAll(
                       [i \in 1..Len(loc.existingCategories) |->
                          Get(ObjGet(loc.cpCategories, loc.existingCategories[i]).o,
                              "id")],
                       listOrder, St, Batch),
                   "updateCategories", loc)
       ELSE Finish(Thrown(NoError, St), "updateCategories",
                   [loc EXCEPT !.updateCategories =
                       @ \o ExtraCategoryUpdates(loc.existingCategories,
                                                 loc.cpCategories, Len(rubric.items))])
    /\ UNCHANGED asked

\* Lines 232-235: RubricCategory.updateAll(updateCategories).
UpdateCategories ==
    /\ pc = "updateCategories"
    /\ \E r \in {CategoryUpdateAll(loc.updateCategories, listOrder, St, Batch)} :
          Finish(r, "createComments",
                 [loc EXCEPT !.finalCategories = PutIds(@, r.results, 1)])
    /\ UNCHANGED asked

\* Lines 237-299: the diff of the given comments and RubricComment.createAll.
CreateComments ==
    /\ pc = "createComments"
    /\ \E d \in {DiffComments(loc.givenComments, 1, loc.finalCategories,
                               loc.cpComments,
                               [EmptyDiff EXCEPT !.existing = ObjKeys(loc.cpComments)])} :
          Finish(CommentCreateAll(d.create, listOrder, St, Batch), "extraComments",
                 [loc EXCEPT !.existingComments = d.existing,
                             !.createComments = d.create,
                             !.updateComments = d.update])
    /\ UNCHANGED asked

\* Lines 301-329: the comments in codePost that were not given.
ExtraComments ==
    /\ pc = "extraComments"
    /\ IF loc.existingComments # <<>> /\ deleteExtra
       THEN Finish(CommentDeleteAll(
                       [i \in 1..Len(loc.existingComments) |->
                          Get(ObjGet(loc.cpComments, loc.existingComments[i]).o, "id")],
                       listOrder, St, Batch),
                   "updateComments", loc)
       ELSE Finish(Thrown(NoError, St), "updateComments",
                   [loc EXCEPT !.updateComments =
                       @ \o ExtraCommentUpdates(loc.existingComments, 1, loc.cpComments,
                                SortKeysOf(loc.givenComments, loc.finalCategories),
                                <<>>)])
    /\ UNCHANGED asked

\* Lines 331-333: RubricComment.updateAll(updateComments), then return.
UpdateComments ==
    /\ pc = "updateComments"
    /\ Finish(CommentUpdateAll(loc.updateComments, listOrder, St, Batch), "done", loc)
    /\ UNCHANGED asked

\* importRubric is called again with the same arguments.
Rerun ==
    /\ pc \in {"done", "failed"}
    /\ run < MaxRuns
    /\ pc' = "idle"
    /\ run' = run + 1
    /\ err' = NoError
    /\ asked' = 0 - 1
    /\ log' = <<>>
    /\ loc' = EmptyLoc
    /\ pre' = [cats |-> cats, coms |-> coms]
    /\ prevOk' = (pc = "done" /\ asked \in {0 - 1, YES_})
    /\ UNCHANGED <<cats, coms, nextId, listOrder, subs, assignmentId, rubric, wipe,
                   deleteExtra, call, apiKey>>

Next ==
    \/ Start
    \/ GetAssignment
    \/ GetSubmissions
    \/ WipeDelete
    \/ WipeCategories
    \/ WipeComments
    \/ GetCategories
    \/ GetComments
    \/ CreateCategories
    \/ ExtraCategories
    \/ UpdateCategories
    \/ CreateComments
    \/ ExtraComments
    \/ UpdateComments
    \/ Rerun

(***************************************************************************)
(* The inputs: remote trees and given rubrics over small name sets.  "1"   *)
(* and "7" are names that are array indices.                               *)
(***************************************************************************)
CatNames == {"A", "1"}
ComNames == {"x", "7"}

\* The sequences without repetition over S.
InjSeqs(S) ==
    {q \in UNION {[1..n -> S] : n \in 0..Cardinality(S)} :
        \A i, j \in DOMAIN q : i # j => q[i] # q[j]}

\* A shape: a list of category names, each with a list of comment names, no
\* name twice.
Shapes ==
    UNION {{[cats |-> c, coms |-> f] :
              f \in {g \in [1..Len(c) -> InjSeqs(ComNames)] :
                       \A i, j \in 1..Len(c) : \A a \in 1..Len(g[i]) : \A b \in 1..Len(g[j]) :
                           i # j => g[i][a] # g[j][b]}} :
           c \in InjSeqs(CatNames)}

\* What the store holds for a category or a comment of a given name.
StoredCategory(name, id, sortKey) ==
    [id |-> Num(id), name |-> Str(name), assignment |-> Num(StoreAssignment),
     pointLimit |-> IF name = "A" THEN Num(0 - 5) ELSE Null,
     helpText |-> IF name = "A" THEN Str("h") ELSE Str(""),
     atMostOnce |-> Bool(FALSE), sortKey |-> Num(sortKey)]

StoredComment(name, id, category, sortKey) ==
    [id |-> Num(id), name |-> Str(name), category |-> Num(category),
     pointDelta |-> IF name = "x" THEN Num(0 - 1) ELSE Num(2),
     text |-> Str("t"),
     explanation |-> IF name = "x" THEN Str("") ELSE Str("e"),
     instructionText |-> Str(""), templateTextOn |-> Bool(FALSE),
     sortKey |-> Num(sortKey)]

RECURSIVE CommentsBefore(_, _)
CommentsBefore(sh, i) ==
    IF i <= 1 THEN 0 ELSE CommentsBefore(sh, i - 1) + Len(sh.coms[i - 1])

\* The remote tree of a shape: sortKeys dense in list order, ids in that order.
RemoteOf(sh) ==
    LET n == Len(sh.cats)
    IN  [cats |-> {StoredCategory(sh.cats[i], i, i - 1) : i \in 1..n},
         coms |-> UNION {{StoredComment(sh.coms[i][j], n + CommentsBefore(sh, i) + j,
                                        i, j - 1) : j \in 1..Len(sh.coms[i])} :
                         i \in 1..n},
         nextId |-> n + CommentsBefore(sh, n + 1) + 1]

\* The optional properties the given categories and comments carry, by variant.
GivenCategoryFields(v) ==
    CASE v = 1 -> <<>>
      [] v = 2 -> [pointLimit |-> Num(5), helpText |-> Str("h")]
      [] OTHER -> [pointLimit |-> Null, atMostOnce |-> Bool(TRUE), sortKey |-> Num(4)]

GivenCommentFields(v) ==
    CASE v = 1 -> [pointDelta |-> Num(1), text |-> Str("t")]
      [] v = 2 -> [pointDelta |-> Num(1), text |-> Str("t"), explanation |-> Str("e"),
                   tier |-> Str("T1")]
      [] OTHER -> [pointDelta |-> Num(0 - 2), text |-> Str("u"),
                   templateTextOn |-> Bool(TRUE), sortKey |-> Num(3)]

Variants == {1, 2, 3}

\* The rubric argument of a shape.
RubricOf(sh, v) ==
    [kind |-> "array",
     items |-> [i \in 1..Len(sh.cats) |->
                  [kind |-> "obj",
                   args |-> Merge(GivenCategoryFields(v), [name |-> Str(sh.cats[i])]),
                   comKind |-> "array",
                   comments |-> [j \in 1..Len(sh.coms[i]) |->
                                   Merge(GivenCommentFields(v),
                                         [name |-> Str(sh.coms[i][j])])]]]]

InitWith(remotes, rubrics, ids, orders, submissions) ==
    /\ \E t \in remotes :
          /\ cats = t.cats
          /\ coms = t.coms
          /\ nextId = t.nextId
          /\ pre = [cats |-> t.cats, coms |-> t.coms]
    /\ listOrder \in orders
    /\ subs \in submissions
    /\ assignmentId \in ids
    /\ rubric \in rubrics
    /\ wipe \in BOOLEAN
    /\ deleteExtra \in BOOLEAN
    /\ wipe => ~deleteExtra
    /\ pc = "idle"
    /\ run = 1
    /\ err = NoError
    /\ asked = 0 - 1
    /\ log = <<>>
    /\ loc = EmptyLoc
    /\ prevOk = FALSE
    /\ call = NoCall

\* Every remote tree and every valid rubric over the names; the assignment has
\* a submission, so that the confirmation is asked.
Init ==
    InitWith({RemoteOf(sh) : sh \in Shapes},
             {RubricOf(sh, v) : sh \in Shapes, v \in Variants},
             {Num(StoreAssignment)}, {"sortKey"}, {1})
    /\ apiKey = Str("key")

Spec == Init /\ [][Next]_vars

(***************************************************************************)
(* Arguments that importRubric_ must reject: a valid rubric with one       *)
(* defect, and assignment ids that are no ids.                             *)
(***************************************************************************)
\* obj without the property f, and obj with obj[f] = v.
Drop(obj, f) == [g \in DOMAIN obj \ {f} |-> obj[g]]
Put(obj, f, v) == Merge(obj, [g \in {f} |-> v])

\* A category's own properties with one defect.
BadCategoryArgs(args) ==
    {Drop(args, "name"), Put(args, "name", Str(" ")), Put(args, "name", Num(3)),
     Put(args, "pointLimit", NaN), Put(args, "atMostOnce", Str("yes")),
     Put(args, "sortKey", Num(0 - 1)), Put(args, "sortKey", Frac(1))}

\* A comment with one defect.
BadComments(comment) ==
    {Drop(comment, "name"), Drop(comment, "pointDelta"), Drop(comment, "text"),
     Put(comment, "name", Str("")), Put(comment, "pointDelta", NaN),
     Put(comment, "text", Str(" ")), Put(comment, "templateTextOn", Num(1)),
     Put(comment, "sortKey", Num(0 - 1)), Null}

\* The rubrics that are r with a defect in category i.
BadAtCategory(r, i) ==
    {[r EXCEPT !.items[i].args = a] : a \in BadCategoryArgs(r.items[i].args)}
    \cup {[r EXCEPT !.items[i].comKind = k, !.items[i].comments = <<>>] :
             k \in {"missing", "object"}}
    \cup {[r EXCEPT !.items[i] = [kind |-> "null", args |-> <<>>, comKind |-> "missing",
                                  comments |-> <<>>]]}
    \cup {[r EXCEPT !.items[i].args = Put(@, "name", r.items[k].args["name"])] :
             k \in 1..Len(r.items) \ {i}}

\* The rubrics that are r with a defect in comment j of category i.
BadAtComment(r, i, j) ==
    {[r EXCEPT !.items[i].comments[j] = c] : c \in BadComments(r.items[i].comments[j])}
    \cup UNION {{[r EXCEPT !.items[i].comments[j] =
                     Put(@, "name", r.items[k].comments[l]["name"])] :
                    l \in 1..Len(r.items[k].comments) \ (IF k = i THEN {j} ELSE {})} :
                k \in 1..Len(r.items)}

\* The rubrics that are r with one defect.
BadRubrics(r) ==
    {[kind |-> k, items |-> <<>>] : k \in {"missing", "object"}}
    \cup UNION {BadAtCategory(r, i) : i \in 1..Len(r.items)}
    \cup UNION {UNION {BadAtComment(r, i, j) : j \in 1..Len(r.items[i].comments)} :
                   i \in 1..Len(r.items)}

\* The two shapes the defects are applied to.
TwoCategories == [cats |-> <<"A", "1">>, coms |-> << <<"x">>, <<"7">> >>]
OneCategory == [cats |-> <<"A">>, coms |-> << <<"x", "7">> >>]

\* The id of an assignment the store does not hold.
OtherAssignment == StoreAssignment + 1

\* Valid and defective rubrics, assignment ids of every kind, both list orders,
\* with and without submissions.
InitArgs ==
    InitWith({RemoteOf(sh) : sh \in {TwoCategories, [cats |-> <<>>, coms |-> <<>>]}},
             {RubricOf(sh, v) : sh \in {TwoCategories, OneCategory}, v \in Variants}
             \cup BadRubrics(RubricOf(TwoCategories, 2))
             \cup BadRubrics(RubricOf(OneCategory, 2)),
             {Num(StoreAssignment), Num(OtherAssignment), Str("7"), Str("A"), Null},
             {"sortKey", "id"}, {0, 1})
    /\ apiKey = Str("key")

SpecArgs == InitArgs /\ [][Next]_vars

(***************************************************************************)
(* Direct calls of the request layer: fetch_ and fetchOne_ as processes.   *)
(* The requests of one call are handed to UrlFetchApp together; the store  *)
(* answers them one by one, in any order.                                  *)
(***************************************************************************)
\* The most items of a batch.
MaxBatch == 3

\* The variables of importRubric_ and the credential, which a direct call
\* leaves alone.
Import == <<listOrder, subs, assignmentId, rubric, wipe, deleteExtra, pc, run, err,
            asked, log, loc, pre, prevOk, apiKey>>

\* A missing (null) item, and an object item with property id and no data.
NullItem == [kind |-> "null", id |-> Undef, hasData |-> FALSE, data |-> <<>>]
ObjItem(id) == [kind |-> "obj", id |-> id, hasData |-> FALSE, data |-> <<>>]

\* A payload for a new comment under category.
NewComment(name, category) ==
    [name |-> Str(name), category |-> Num(category), text |-> Str("t"),
     pointDelta |-> Num(1)]

\* The items a batch is made of, by method: ids the store holds (3, 4) and
\* one it does not (9), a category it holds (1) and one it does not (9).
Items(method) ==
    CASE method = "POST" ->
             {PatchItem(Undef, NewComment("n", 1)), PatchItem(Undef, NewComment("m", 1)),
              PatchItem(Undef, NewComment("k", 9)), NullItem}
      [] method = "PATCH" ->
             {PatchItem(Num(3), [sortKey |-> Num(5)]), PatchItem(Num(4), [sortKey |-> Num(6)]),
              PatchItem(Num(9), [sortKey |-> Num(1)]), ObjItem(Num(3)),
              PatchItem(Null, [sortKey |-> Num(2)]), NullItem}
      [] OTHER ->
             {BareItem(Num(3)), BareItem(Num(9)), BareItem(Bool(TRUE)), ObjItem(Num(4)),
              BareItem(Str("A")), ObjItem(Undef), NullItem}

\* The lists of at most MaxBatch items.
Batches(method) == UNION {[1..n -> Items(method)] : n \in 0..MaxBatch}

\* A 2xx status that is not the success code of the method.
OtherSuccess(method) == IF method \in {"GET", "PATCH"} THEN 201 ELSE 200

\* What a request can be answered with: the answer of the store, or an answer
\* with another 2xx status and a detail that leaves the store as it is.
Answers(order, st, req) ==
    {RemoteStep(order, st, req),
     Answer(st, OtherSuccess(req.method), [detail |-> Str("d")], <<>>)}

\* InRequestOrder with the responses in the order in which they arrived.
InCompletionOrder(responses, done) == [k \in 1..Len(done) |-> responses[done[k]]]

\* UrlFetchApp.fetchAll returns the responses in the order of the requests,
\* whatever the order done in which they arrived.
InRequestOrder(responses, done) == [i \in 1..Len(done) |-> responses[i]]

\* Lines 110-165 of fetch_: the forEach loop and the test for no request.
FetchBuild ==
    /\ call.fn = "fetch_" /\ call.pc = "called"
    /\ \E b \in {Built(call.method, call.endpoint, call.data)} :
          call' = IF b.err.kind # "none"
                  THEN [call EXCEPT !.pc = "thrown", !.err = b.err]
                  ELSE IF ShortCircuit(b.requests)
                  THEN [call EXCEPT !.pc = "returned", !.result = <<>>]
                  ELSE [call EXCEPT !.pc = "fetchAll", !.requests = b.requests,
                                    !.fanouts = @ + 1]
    /\ UNCHANGED <<cats, coms, nextId>>
    /\ UNCHANGED Import

\* Lines 191-211 of fetchOne_, called with the data of item call.data[1] for
\* the endpoint that ends with its id.
FetchOneBuild ==
    /\ call.fn = "fetchOne_" /\ call.pc = "called"
    /\ call' = IF makeOptions_.kind # "none"
               THEN [call EXCEPT !.pc = "thrown", !.err = makeOptions_]
               ELSE IF call.method \in {"POST", "PATCH"} /\ ~call.data[1].hasData
               THEN [call EXCEPT !.pc = "thrown",
                                 !.err = FetchError(call.method, 0 - 1, "missing data")]
               ELSE [call EXCEPT !.pc = "fetchAll",
                                 !.requests = <<RequestOf(call.method, call.endpoint,
                                                          call.data[1])>>,
                                 !.fanouts = @ + 1]
    /\ UNCHANGED <<cats, coms, nextId>>
    /\ UNCHANGED Import

\* The store answers request i of the requests under way.
Complete(i) ==
    /\ call.pc = "fetchAll"
    /\ i \in 1..Len(call.requests)
    /\ i \notin DOMAIN call.responses
    /\ \E a \in Answers(listOrder, St, call.requests[i]) :
          /\ cats' = a.st.cats
          /\ coms' = a.st.coms
          /\ nextId' = a.st.nextId
          /\ call' = [call EXCEPT
                         !.responses = [k \in DOMAIN @ \cup {i} |->
                                           IF k = i THEN [code |-> a.code, body |-> a.body,
                                                          children |-> a.children]
                                           ELSE @[k]],
                         !.done = Append(@, i)]
    /\ UNCHANGED Import

\* Lines 168-175 of fetch_ (line 214 of fetchOne_): every response is there
\* and processResult_ is mapped over them.
Process ==
    /\ call.pc = "fetchAll"
    /\ Len(call.done) = Len(call.requests)
    /\ \E r \in {Responses(call.method, 1, call.requests,
                           [st |-> St,
                            answers |-> InRequestOrder(call.responses, call.done)])} :
          call' = [call EXCEPT !.pc = IF r.err.kind # "none" THEN "thrown" ELSE "returned",
                               !.err = r.err,
                               !.result = r.results,
                               !.logged = r.logged]
    /\ UNCHANGED <<cats, coms, nextId>>
    /\ UNCHANGED Import

NextBatch ==
    \/ FetchBuild
    \/ FetchOneBuild
    \/ \E i \in 1..MaxBatch : Complete(i)
    \/ Process

\* A call fn(method, endpoint, data) that has just been made.
CallOf(fn, method, endpoint, data) ==
    [NoCall EXCEPT !.fn = fn, !.pc = "called", !.method = method,
                   !.endpoint = endpoint, !.data = data]

\* A store that holds two categories with a comment each, and no call of
\* importRubric_ under way.
AtRest ==
    /\ cats = RemoteOf(TwoCategories).cats
    /\ coms = RemoteOf(TwoCategories).coms
    /\ nextId = RemoteOf(TwoCategories).nextId
    /\ pre = [cats |-> cats, coms |-> coms]
    /\ listOrder = "sortKey"
    /\ subs = 0
    /\ assignmentId = Num(StoreAssignment)
    /\ rubric = RubricOf([cats |-> <<>>, coms |-> <<>>], 1)
    /\ wipe = FALSE
    /\ deleteExtra = FALSE
    /\ pc = "idle"
    /\ run = 1
    /\ err = NoError
    /\ asked = 0 - 1
    /\ log = <<>>
    /\ loc = EmptyLoc
    /\ prevOk = FALSE

\* One call of fetch_ with any batch, or of fetchOne_ with any item, on the
\* comments of that store.
InitCalls ==
    /\ AtRest
    /\ \E method \in {"GET", "POST", "PATCH", "DELETE"} :
          \/ \E data \in Batches(method) :
                call = CallOf("fetch_", method, RUBRIC_COMMENTS_, data)
          \/ \E item \in Items(method) \ {NullItem} :
                call = CallOf("fetchOne_", method, RUBRIC_COMMENTS_, <<item>>)

\* The calls with the API key set.
InitBatch == InitCalls /\ apiKey = Str("key")

SpecBatch == InitBatch /\ [][NextBatch]_vars

\* Runs of importRubric_ and direct calls of the request layer, with the API
\* key set and not set.
InitCredential ==
    /\ \/ InitWith({RemoteOf(TwoCategories)},
                   {RubricOf(sh, 1) : sh \in {TwoCategories, OneCategory}},
                   {Num(StoreAssignment)}, {"sortKey"}, {0, 1})
       \/ InitCalls
    /\ apiKey \in {Null, Str("key")}

SpecCredential == InitCredential /\ [][Next \/ NextBatch]_vars

(***************************************************************************)
(* Direct calls of RubricCategory.checkArgs and RubricComment.checkArgs.   *)
(* call.data holds the one argument args, call.method the options:         *)
(* "creating", "updating", or "partial" for neither.                       *)
(***************************************************************************)
\* A property the object does not have.
Absent == [t |-> "absent", n |-> 0, s |-> ""]

\* The object with the properties of obj that are there.
Present(obj) == [f \in {g \in DOMAIN obj : obj[g] # Absent} |-> obj[f]]

\* The objects given as a category: each declared field absent, valid or
\* invalid in some way, and the undeclared field id.
CategoryInputs ==
    {Present([assignment |-> a, name |-> n, pointLimit |-> p, helpText |-> h,
              atMostOnce |-> o, sortKey |-> k, id |-> i]) :
        a \in {Absent, Num(StoreAssignment), Num(0 - 1)},
        n \in {Absent, Str("A"), Str(" ")},
        p \in {Absent, Null, Num(5), Frac(0 - 3), NaN, Bool(TRUE), Str("n")},
        h \in {Absent, Str("h")},
        o \in {Absent, Bool(FALSE), Num(1)},
        k \in {Absent, Num(0), Frac(1)},
        i \in {Absent, Num(1)}}

\* The objects given as a comment, with the undeclared field tier.
CommentInputs ==
    {Present([category |-> c, name |-> n, pointDelta |-> p, text |-> x,
              explanation |-> e, templateTextOn |-> o, sortKey |-> k, tier |-> i]) :
        c \in {Absent, Num(1), Frac(1)},
        n \in {Absent, Str("x"), Str("")},
        p \in {Absent, Num(2), Num(0 - 1), Frac(0), NaN, Null, Bool(TRUE),
                Str("n"), Str("7")},
        x \in {Absent, Str("t"), Str(" ")},
        e \in {Absent, Str("e")},
        o \in {Absent, Bool(TRUE), Str("n")},
        k \in {Absent, Num(3), Num(0 - 1)},
        i \in {Absent, Str("T1")}}

\* The body of checkArgs for the resource and options of the call.
CheckArgsOf(fn, options, args) ==
    IF fn = "RubricCategory.checkArgs"
    THEN CategoryCheckArgs(args, options = "updating", options = "creating")
    ELSE CommentCheckArgs(args, options = "updating", options = "creating")

\* RubricCategory.checkArgs(args, options) / RubricComment.checkArgs(args,
\* options): it returns the checked object or throws.
CheckArgs ==
    /\ call.fn \in {"RubricCategory.checkArgs", "RubricComment.checkArgs"}
    /\ call.pc = "called"
    /\ \E r \in {CheckArgsOf(call.fn, call.method, call.data[1])} :
          call' = [call EXCEPT !.pc = IF r.err.kind # "none" THEN "thrown"
                                      ELSE "returned",
                               !.err = r.err,
                               !.result = <<r.fixed>>]
    /\ UNCHANGED <<cats, coms, nextId>>
    /\ UNCHANGED Import

\* One call of checkArgs of either resource with any object and options.
InitCheck ==
    /\ AtRest
    /\ \E options \in {"creating", "updating", "partial"} :
          \/ \E args \in CategoryInputs \cup {Null} :
                call = CallOf("RubricCategory.checkArgs", options, "", <<args>>)
          \/ \E args \in CommentInputs \cup {Null} :
                call = CallOf("RubricComment.checkArgs", options, "", <<args>>)

\* Calls of importRubric_ with a valid rubric on a store of two categories.
InitImport ==
    InitWith({RemoteOf(TwoCategories)},
             {RubricOf(sh, v) : sh \in {TwoCategories, OneCategory}, v \in Variants},
             {Num(StoreAssignment)}, {"sortKey"}, {0, 1})

\* Direct calls of checkArgs, and the calls importRubric_ makes of it.
InitChecks == (InitCheck \/ InitImport) /\ apiKey = Str("key")

SpecCheck == InitChecks /\ [][Next \/ CheckArgs]_vars

(***************************************************************************)
(* Direct calls of createAll and updateAll of a category or a comment,     *)
(* each followed by getByIds of the object written.  call.data holds the   *)
(* one element of the list given, call.result what the last accessor       *)
(* returned.                                                               *)
(***************************************************************************)
\* The numbers written as pointLimit and pointDelta.
Points == {Num(5), Num(0 - 3), Num(0), Frac(1), Frac(0 - 2)}

\* The accessor of the call applied to its one element.
WriteOf(fn, item, order, st, batch) ==
    CASE fn = "RubricCategory.createAll" -> CategoryCreateAll(<<item>>, order, st, batch)
      [] fn = "RubricCategory.updateAll" -> CategoryUpdateAll(<<item>>, order, st, batch)
      [] fn = "RubricComment.createAll" -> CommentCreateAll(<<item>>, order, st, batch)
      [] OTHER -> CommentUpdateAll(<<item>>, order, st, batch)

\* RubricCategory / RubricComment . createAll(data) / updateAll(data).
Write ==
    /\ call.fn \in {"RubricCategory.createAll", "RubricCategory.updateAll",
                     "RubricComment.createAll", "RubricComment.updateAll"}
    /\ call.pc = "called"
    /\ \E r \in {WriteOf(call.fn, call.data[1], listOrder, St, 1)} :
          /\ cats' = r.st.cats
          /\ coms' = r.st.coms
          /\ nextId' = r.st.nextId
          /\ call' = [call EXCEPT !.pc = IF r.err.kind # "none" THEN "thrown"
                                         ELSE "written",
                                  !.err = r.err,
                                  !.result = r.results,
                                  !.requests = r.sent]
    /\ UNCHANGED Import

\* RubricCategory / RubricComment . getByIds([id]) of the object written.
Read ==
    /\ call.pc = "written"
    /\ \E r \in {IF call.endpoint = RUBRIC_CATEGORIES_
                  THEN CategoryGetByIds(<<call.result[1].o["id"].n>>, listOrder, St, 2)
                  ELSE CommentGetByIds(<<call.result[1].o["id"].n>>, listOrder, St, 2)} :
          call' = [call EXCEPT !.pc = IF r.err.kind # "none" THEN "thrown" ELSE "read",
                               !.err = r.err,
                               !.result = r.results]
    /\ UNCHANGED <<cats, coms, nextId>>
    /\ UNCHANGED Import

\* One call that writes one category or comment with any number, or null,
\* as its pointLimit or pointDelta.
InitWrite ==
    /\ AtRest
    /\ \/ \E v \in Points \cup {Null}, name \in {"B", "C"} :
             call = CallOf("RubricCategory.createAll", "POST", RUBRIC_CATEGORIES_,
                           <<[assignment |-> Num(StoreAssignment), name |-> Str(name),
                              pointLimit |-> v]>>)
       \/ \E v \in Points \cup {Null}, id \in {1, 2} :
             call = CallOf("RubricCategory.updateAll", "PATCH", RUBRIC_CATEGORIES_,
                           <<[id |-> Num(id), data |-> [pointLimit |-> v]]>>)
       \/ \E v \in Points, category \in {1, 2} :
             call = CallOf("RubricComment.createAll", "POST", RUBRIC_COMMENTS_,
                           <<[category |-> Num(category), name |-> Str("y"),
                              pointDelta |-> v, text |-> Str("t")]>>)
       \/ \E v \in Points, id \in {3, 4} :
             call = CallOf("RubricComment.updateAll", "PATCH", RUBRIC_COMMENTS_,
                           <<[id |-> Num(id), data |-> [pointDelta |-> v]]>>)

InitWrites == (InitWrite \/ InitImport) /\ apiKey = Str("key")

\* Direct writes followed by a read, and the calls of importRubric_.
SpecWrite == InitWrites /\ [][Next \/ Write \/ Read]_vars

\* The longest endpoint string tried, in characters.
MaxPath == 6

\* The endpoint strings: slashes and letters in any arrangement.
Paths == UNION {[1..n -> {"/", "a"}] : n \in 0..MaxPath}

\* Lines 111 and 193: endpoint = fixEndpoint_(endpoint).
FixEndpoint ==
    /\ call.fn = "fixEndpoint_"
    /\ call.pc = "called"
    /\ call' = [call EXCEPT !.pc = "returned",
                            !.result = fixEndpoint_(call.endpoint)]
    /\ UNCHANGED <<cats, coms, nextId>>
    /\ UNCHANGED Import

\* One call of fixEndpoint_ with any endpoint string.
InitPath ==
    /\ AtRest
    /\ apiKey = Str("key")
    /\ \E endpoint \in Paths : call = CallOf("fixEndpoint_", "", endpoint, <<>>)

SpecPath == InitPath /\ [][FixEndpoint]_vars

(***************************************************************************)
(* Rubric helpers (src/gas/5_RubricHelpers.js): combineRubrics and         *)
(* processRubric, called directly on rows as a sheet yields them.  A row   *)
(* is an object; call.data holds the arguments, call.result the value      *)
(* returned.                                                               *)
(***************************************************************************)
\* String(n) for the integers of the model.
NumString(n) ==
    CASE n = 0 -> "0"
      [] n = 1 -> "1"
      [] n = 2 -> "2"
      [] n = 5 -> "5"
      [] n = 7 -> "7"
      [] OTHER -> "n"

\* String(val): also what a value becomes when it is used as a property key.
makeString(val) ==
    CASE val.t = "str" -> val.s
      [] val.t = "num" -> NumString(val.n)
      [] val.t = "bool" -> (IF val.n = 1 THEN "true" ELSE "false")
      [] val.t = "null" -> "null"
      [] val.t = "undefined" -> "undefined"
      [] OTHER -> "NaN"

\* rubrics.flat()
flat(rubrics) == Flatten(rubrics)

\* combineRubrics with the test of seenNames left out: every row is pushed.
combineRowsAll(rows, i, seenNames, combined) == rows

\* The loop of combineRubrics (lines 122-133) from row i on: seenNames maps
\* the property key of a name to its index (from 1) in combined.
RECURSIVE combineRows(_, _, _, _)
combineRows(rows, i, seenNames, combined) ==
    IF i > Len(rows) THEN combined
    ELSE LET row == rows[i]
             name == Get(row, "name")
             key == makeString(name)
         IN  IF IsNullish(name)
             THEN combineRows(rows, i + 1, seenNames, Append(combined, row))
             ELSE IF ObjHas(seenNames, key)
             THEN combineRows(rows, i + 1, seenNames,
                              [combined EXCEPT ![ObjGet(seenNames, key)] = row])
             ELSE combineRows(rows, i + 1,
                              ObjPut(seenNames, key, Len(combined) + 1),
                              Append(combined, row))

\* combineRubrics(...rubrics)
combineRubrics(rubrics) == combineRows(flat(rubrics), 1, <<>>, <<>>)

\* The most rows given to combineRubrics in one call.
MaxRows == 3

\* The rows: with a name (a string or a number), with name null or without
\* name; the category tells rows of one name apart.
Rows ==
    {Present([name |-> n, category |-> c]) :
        n \in {Absent, Null, Str("a"), Str("1"), Num(1)},
        c \in {Str("A"), Str("B")}}

RowLists(n) == UNION {[1..k -> Rows] : k \in 0..n}

\* combineRubrics(...rubrics) called with two rubrics.
Combine ==
    /\ call.fn = "combineRubrics"
    /\ call.pc = "called"
    /\ call' = [call EXCEPT !.pc = "returned",
                            !.result = combineRubrics(call.data)]
    /\ UNCHANGED <<cats, coms, nextId>>
    /\ UNCHANGED Import

\* combineRubrics(combined): a second call, with the result of the first.
Recombine ==
    /\ call.fn = "combineRubrics"
    /\ call.pc = "returned"
    /\ call' = [call EXCEPT !.pc = "recombined",
                            !.data = <<call.result>>,
                            !.result = combineRubrics(<<call.result>>)]
    /\ UNCHANGED <<cats, coms, nextId>>
    /\ UNCHANGED Import

InitCombine ==
    /\ AtRest
    /\ apiKey = Str("key")
    /\ \E first \in RowLists(MaxRows) :
          \E second \in RowLists(MaxRows - Len(first)) :
             call = CallOf("combineRubrics", "", "", <<first, second>>)

SpecCombine == InitCombine /\ [][Combine \/ Recombine]_vars

\* makeBool(val): the truthiness of val.
makeBool(val) == Bool(~Falsy(val))

\* makeNumAllowNull(val)
makeNumAllowNull(val) ==
    IF IsNullish(val) \/ StrictEq(val, Str("")) THEN Null
    ELSE CASE val.t \in {"num", "frac", "nan"} -> val
           [] val.t = "bool" -> Num(val.n)
           [] val.t = "str" -> StrToNumber(val.s)
           [] OTHER -> NaN

\* The call make(row[field]) for the converter a field table names.
Make(make, val) ==
    CASE make = "makeString" -> Str(makeString(val))
      [] make = "makeBool" -> makeBool(val)
      [] OTHER -> makeNumAllowNull(val)

CATEGORY_OPTIONAL == << <<"pointLimit", "makeNumAllowNull">>, <<"helpText", "makeString">>,
                        <<"atMostOnce", "makeBool">> >>
COMMENT_REQUIRED == << <<"name", "makeString">>, <<"pointDelta", "makeNumAllowNull">>,
                       <<"text", "makeString">> >>
COMMENT_OPTIONAL == << <<"explanation", "makeString">>,
                       <<"instructionText", "makeString">>,
                       <<"templateTextOn", "makeBool">> >>

\* The fields of the table the row has, converted.
Converted(row, table) ==
    [f \in {table[i][1] : i \in 1..Len(table)} \cap DOMAIN row |->
        Make(table[CHOOSE i \in 1..Len(table) : table[i][1] = f][2], row[f])]

\* The test of a required field: the row lacks it or holds "".
Lacks(row, field) == ~hasProp_(row, field) \/ StrictEq(row[field], Str(""))

\* The required comment fields the row lacks, in the order of the table.
LackedOf(row) ==
    SelectSeq([i \in 1..Len(COMMENT_REQUIRED) |-> COMMENT_REQUIRED[i][1]],
              LAMBDA f : Lacks(row, f))

\* The exception of processRubric for row index (from 0).
RowError(index, field) ==
    [kind |-> "processRubric", function |-> "processRubric()", cat |-> 0 - 1,
     com |-> index, field |-> field, reason |-> "missing"]

\* categoryArgs of a row that opens a category.
CategoryArgsOf(row, category) ==
    Merge(Merge([name |-> Str(category)], Converted(row, CATEGORY_OPTIONAL)),
          [comments |-> <<>>])

\* Lines 189-199: the category of the row is opened when it is first seen,
\* before the comment fields of the row are looked at.
Opened(categories, row, category) ==
    IF ObjHas(categories, category) THEN categories
    ELSE ObjPut(categories, category, CategoryArgsOf(row, category))

\* The data.forEach callback of processRubric (lines 183-215) from row i on:
\* [err, categories].
RECURSIVE processRows(_, _, _, _)
processRows(data, i, removeInvalid, categories) ==
    IF i > Len(data) THEN [err |-> NoError, categories |-> categories]
    ELSE LET row == data[i]
         IN  IF Lacks(row, "category")
             THEN (IF removeInvalid
                   THEN processRows(data, i + 1, removeInvalid, categories)
                   ELSE [err |-> RowError(i - 1, "category"), categories |-> categories])
             ELSE LET category == makeString(row["category"])
                      opened == Opened(categories, row, category)
                  IN  IF LackedOf(row) # <<>>
                      THEN (IF removeInvalid
                            THEN processRows(data, i + 1, removeInvalid, opened)
                            ELSE [err |-> RowError(i - 1, LackedOf(row)[1]),
                                  categories |-> opened])
                      ELSE processRows(data, i + 1, removeInvalid,
                               ObjPut(opened, category,
                                      [ObjGet(opened, category) EXCEPT !["comments"] =
                                          Append(@, Merge(Converted(row, COMMENT_REQUIRED),
                                                          Converted(row, COMMENT_OPTIONAL)))]))

\* Lines 217-224: the categories without comments are deleted.
WithComments(categories) == SelectSeq(categories, LAMBDA e : e.v["comments"] # <<>>)

\* processRubric(data, removeInvalid): [err, result].
processRubric(data, removeInvalid) ==
    LET done == processRows(data, 1, removeInvalid, <<>>)
    IN  IF done.err.kind # "none" THEN [err |-> done.err, result |-> <<>>]
        ELSE [err |-> NoError,
              result |-> ObjValues(IF removeInvalid THEN WithComments(done.categories)
                                   ELSE done.categories)]

\* The most rows given to processRubric in one call.
MaxData == 3

\* The rows of a sheet: the category missing, empty or given, with comment
\* fields that are complete, incomplete in some way, or complete with
\* optional fields of the category and of the comment.
DataRows ==
    {Present(Merge([category |-> c], fields)) :
        c \in {Absent, Str(""), Str("A"), Str("1")},
        fields \in {[name |-> Str("x"), pointDelta |-> Num(1), text |-> Str("t")],
                    [name |-> Num(7), pointDelta |-> Str("7"), text |-> Str("u"),
                     helpText |-> Str("h"), atMostOnce |-> Num(1),
                     explanation |-> Str("e"), tier |-> Str("T1")],
                    [pointDelta |-> Num(1), text |-> Str("t"), helpText |-> Str("g")],
                    [name |-> Str("y"), pointDelta |-> Str(""), text |-> Str("t"),
                     pointLimit |-> Str("5")],
                    [name |-> Str("z"), pointDelta |-> Null]}}

\* processRubric(data, removeInvalid)
ProcessRubric ==
    /\ call.fn = "processRubric"
    /\ call.pc = "called"
    /\ \E r \in {processRubric(call.data, call.method = "removeInvalid")} :
          call' = [call EXCEPT !.pc = IF r.err.kind # "none" THEN "thrown"
                                      ELSE "returned",
                               !.err = r.err,
                               !.result = r.result]
    /\ UNCHANGED <<cats, coms, nextId>>
    /\ UNCHANGED Import

\* One call of processRubric with any list of rows; call.method holds the
\* second argument, "removeInvalid" for true.
InitProcess ==
    /\ AtRest
    /\ apiKey = Str("key")
    /\ \E data \in UNION {[1..n -> DataRows] : n \in 0..MaxData} :
          \E removeInvalid \in {"removeInvalid", ""} :
             call = CallOf("processRubric", removeInvalid, "", data)

SpecProcess == InitProcess /\ [][ProcessRubric]_vars

(***************************************************************************)
(* Observations of a call, used by the properties below.                   *)
(***************************************************************************)
\* The call ran to its end: it returned normally and was not declined.
Completed == pc = "done" /\ asked \in {0 - 1, YES_}

\* The call ended with an exception.
Failed == pc = "failed"

\* The requests of this call that change the store.
Mutations == {i \in 1..Len(log) : log[i].method \in {"POST", "PATCH", "DELETE"}}

\* A stored category or comment as the API user sees it (sign flipped back).
ShownCategory(c) == FlipFetched([o |-> c], "pointLimit", TRUE).o
ShownComment(c) == FlipFetched([o |-> c], "pointDelta", FALSE).o

CategoryFields == {"name", "pointLimit", "helpText", "atMostOnce"}
CommentFields == {"name", "pointDelta", "text", "explanation", "instructionText",
                  "templateTextOn"}

\* The stored object carries every listed field the given object declares.
Agrees(shown, given, fields) ==
    \A f \in fields \cap DOMAIN given : shown[f] = given[f]

\* The names the desired state declares.
DesiredCategoryNames == {rubric.items[i].args["name"].s : i \in 1..Len(rubric.items)}
DesiredCommentNames ==
    UNION {{rubric.items[i].comments[j]["name"].s :
               j \in 1..Len(rubric.items[i].comments)} : i \in 1..Len(rubric.items)}

\* Every desired category and comment is in the store as declared.
Converged ==
    \A i \in 1..Len(rubric.items) :
       \E c \in cats :
          /\ c["name"] = rubric.items[i].args["name"]
          /\ Agrees(ShownCategory(c), rubric.items[i].args, CategoryFields)
          /\ \A j \in 1..Len(rubric.items[i].comments) :
                \E m \in coms :
                   /\ m["name"] = rubric.items[i].comments[j]["name"]
                   /\ m["category"] = c["id"]
                   /\ Agrees(ShownComment(m), rubric.items[i].comments[j],
                             CommentFields)

\* The remote categories of the start of the call whose name is not desired,
\* and the comments of the start of the call whose name is not desired.
OrphanCategories == {c \in pre.cats : c["name"].s \notin DesiredCategoryNames}
OrphanComments == {m \in pre.coms : m["name"].s \notin DesiredCommentNames}

(***************************************************************************)
(* Properties.                                                             *)
(***************************************************************************)
\* C1 (convergence): an incremental call (wipe = FALSE, either deleteExtra)
\* that was confirmed never ends with an exception, and when it has ended,
\* every desired category is in the store under its name with the declared
\* field values and every desired comment is in the store under its name,
\* attached to the category it is declared under, with its declared values.
C1_Convergence ==
    (~wipe /\ asked = YES_ /\ pc \in {"done", "failed"}) => (pc = "done" /\ Converged)

\* C2 (idempotence): in a call with wipe = FALSE that follows a completed call
\* with the same arguments, no POST, PATCH or DELETE request is issued.
C2_Idempotence == (run > 1 /\ prevOk /\ ~wipe) => Mutations = {}

\* A second incremental call has completed after a first one that created and
\* deleted resources (the store handed out more ids than it now holds).
C2_Witness ==
    /\ run = 2 /\ prevOk /\ ~wipe /\ Completed /\ asked = YES_
    /\ rubric.items # <<>>
    /\ Len(log) > 3
    /\ nextId > Cardinality(cats) + Cardinality(coms) + 1

\* The call has ended after its confirmation, by a return or by an exception.
Ended == pc \in {"done", "failed"} /\ asked = YES_

\* C4 (validation before mutation): a call that ends with an exception of the
\* field validator (checkArgs) has issued no POST, PATCH or DELETE before it.
C4_ValidationBeforeMutation ==
    (Failed /\ err.kind = "checkArgs") => Mutations = {}

\* C6 (order preservation): after a completed call, wipe or incremental, the
\* store holds each desired category under its name with sortKey equal to its
\* index in the desired list.
C6_OrderPreservation ==
    Completed =>
       \A i \in 1..Len(rubric.items) :
          /\ \E c \in cats : c["name"] = rubric.items[i].args["name"]
          /\ \A c \in cats :
                c["name"] = rubric.items[i].args["name"] => c["sortKey"] = Num(i - 1)

\* An incremental call has completed on two desired categories that the store
\* held in the opposite order.
C6_Witness ==
    /\ Completed /\ run = 1 /\ ~wipe /\ Len(rubric.items) = 2
    /\ \E a, b \in pre.cats :
          /\ a["name"] = rubric.items[1].args["name"]
          /\ b["name"] = rubric.items[2].args["name"]
          /\ a["sortKey"].n > b["sortKey"].n

\* C7 (orphan non-interleaving): after an incremental call with
\* deleteExtra = FALSE, every stored category whose name is not desired has a
\* sortKey greater than the sortKey of every desired category.
C7_OrphanNonInterleaving ==
    (Ended /\ ~wipe /\ ~deleteExtra) =>
       \A c, d \in cats :
          (c["name"].s \notin DesiredCategoryNames /\ d["name"].s \in DesiredCategoryNames)
             => c["sortKey"].n > d["sortKey"].n

\* An incremental call without deletion has completed with a desired category
\* and an orphan category that was first in the store.
C7_Witness ==
    /\ Completed /\ asked = YES_ /\ run = 1 /\ ~wipe /\ ~deleteExtra
    /\ rubric.items # <<>>
    /\ \E c \in OrphanCategories : c["sortKey"] = Num(0)

\* The stored object that has the id of object x.
Now(S, x) == CHOOSE y \in S : y["id"] = x["id"]

\* C8 (orphan relative order): after a completed incremental call with
\* deleteExtra = FALSE, two orphan categories are in the order of their
\* sortKeys before the call, and so are two orphan comments of one category.
C8_OrphanRelativeOrder ==
    (Completed /\ asked = YES_ /\ ~wipe /\ ~deleteExtra) =>
       /\ \A a, b \in OrphanCategories :
             a["sortKey"].n < b["sortKey"].n
                => Now(cats, a)["sortKey"].n < Now(cats, b)["sortKey"].n
       /\ \A a, b \in OrphanComments :
             (a["category"] = b["category"] /\ a["sortKey"].n < b["sortKey"].n)
                => Now(coms, a)["sortKey"].n < Now(coms, b)["sortKey"].n

\* The number of comments the desired state declares for the category with id
\* categoryId (0 when the category is not desired).
DeclaredFor(categoryId) ==
    IF \E i \in 1..Len(rubric.items) : \E c \in cats :
          c["id"].n = categoryId /\ c["name"] = rubric.items[i].args["name"]
    THEN Len(rubric.items[CHOOSE i \in 1..Len(rubric.items) : \E c \in cats :
                 c["id"].n = categoryId /\ c["name"] = rubric.items[i].args["name"]].comments)
    ELSE 0

\* The sortKey the call has decided for the extra comment m: that of its queued
\* update, or the one it has when no update is queued.
AssignedSortKey(m) ==
    IF \E u \in 1..Len(loc.updateComments) : loc.updateComments[u].id = m["id"]
    THEN loc.updateComments[CHOOSE u \in 1..Len(loc.updateComments) :
             loc.updateComments[u].id = m["id"]].data["sortKey"]
    ELSE m["sortKey"]

\* The extra comment handled k-th.
ExtraComment(k) == CHOOSE m \in pre.coms : m["name"].s = loc.existingComments[k]

\* C9 (orphan comment placement): once the extra comments are handled in an
\* incremental call with deleteExtra = FALSE, each one is assigned the number
\* of desired comments of its category plus the number of extra comments of
\* that category handled before it, a non-negative integer.
C9_OrphanCommentPlacement ==
    (pc = "updateComments" /\ ~wipe /\ ~deleteExtra) =>
       \A k \in 1..Len(loc.existingComments) :
          AssignedSortKey(ExtraComment(k)) =
             Num(DeclaredFor(ExtraComment(k)["category"].n)
                 + Cardinality({j \in 1..(k - 1) :
                        ExtraComment(j)["category"] = ExtraComment(k)["category"]}))

\* The requests of the call with a method, to the comments endpoint.
CommentRequests(method) ==
    {k \in 1..Len(log) : log[k].method = method /\ log[k].endpoint = RUBRIC_COMMENTS_}

\* C10 (rename-safe matching): when an incremental call has ended and a
\* desired comment is stored under its name in a category other than the one
\* it is declared under, the call has issued exactly one PATCH to the id of
\* that comment, carrying category = the id of the declared category, no
\* DELETE to that id and no POST of a comment of that name.
C10_RenameSafeMatching ==
    (Ended /\ ~wipe) =>
       \A i \in 1..Len(rubric.items) : \A j \in 1..Len(rubric.items[i].comments) :
          \A m \in pre.coms : \A a \in pre.cats :
             (/\ m["name"] = rubric.items[i].comments[j]["name"]
              /\ m["category"] = a["id"]
              /\ a["name"] # rubric.items[i].args["name"])
             => /\ Cardinality({k \in CommentRequests("PATCH") : log[k].id = m["id"].n}) = 1
                /\ \E b \in cats :
                      /\ b["name"] = rubric.items[i].args["name"]
                      /\ \A k \in CommentRequests("PATCH") :
                            log[k].id = m["id"].n
                               => /\ "category" \in DOMAIN log[k].data
                                  /\ log[k].data["category"] = b["id"]
                /\ \A k \in CommentRequests("DELETE") : log[k].id # m["id"].n
                /\ \A k \in CommentRequests("POST") : log[k].data["name"] # m["name"]

\* The fields of args that the field tables reject: a required one that is
\* missing, or one that is there with a value its validator refuses.
FieldOffences(args, required, optional) ==
    {(required \o optional)[i][1] :
        i \in {k \in 1..(Len(required) + Len(optional)) :
                  FieldProblem(args, (required \o optional)[k], k <= Len(required)) # ""}}

\* The structural offences of a rubric argument, each <<category index,
\* comment index, field>> (0 - 1 where there is no such index).
Offences(r) ==
    IF r.kind # "array" THEN {<<0 - 1, 0 - 1, "rubric">>}
    ELSE UNION {
        IF r.items[i].kind # "obj" THEN {}
        ELSE {<<i - 1, 0 - 1, f>> :
                 f \in FieldOffences(r.items[i].args, Tail(CategoryREQUIRED),
                                     CategoryOPTIONAL)}
             \cup (IF r.items[i].comKind # "array"
                   THEN {<<i - 1, 0 - 1, "comments">>} ELSE {})
             \cup UNION {
                     IF r.items[i].comments[j] = Null THEN {}
                     ELSE {<<i - 1, j - 1, f>> :
                              f \in FieldOffences(r.items[i].comments[j],
                                                  Tail(CommentREQUIRED), CommentOPTIONAL)} :
                     j \in 1..Len(r.items[i].comments)} :
        i \in 1..Len(r.items)}

Named(x) == x # Null /\ "name" \in DOMAIN x
LaterCategoryDuplicates(r) ==
    {i \in 1..Len(r.items) :
        /\ r.items[i].kind = "obj" /\ Named(r.items[i].args)
        /\ \E k \in 1..(i - 1) :
              /\ r.items[k].kind = "obj" /\ Named(r.items[k].args)
              /\ r.items[k].args["name"] = r.items[i].args["name"]}
LaterCommentDuplicates(r) ==
    {p \in UNION {{<<i, j>> : j \in 1..Len(r.items[i].comments)} : i \in 1..Len(r.items)} :
        /\ Named(r.items[p[1]].comments[p[2]])
        /\ \E k \in 1..p[1] : \E l \in 1..Len(r.items[k].comments) :
              /\ k < p[1] \/ l < p[2]
              /\ Named(r.items[k].comments[l])
              /\ r.items[k].comments[l]["name"] = r.items[p[1]].comments[p[2]]["name"]}
HasDuplicates(r) == LaterCategoryDuplicates(r) # {} \/ LaterCommentDuplicates(r) # {}

\* C5 (uniqueness): a call whose rubric carries a category name twice, or a
\* comment name twice anywhere in the rubric, ends with an exception without
\* having issued any request; when the rubric has no other defect and the
\* assignment id is a number, the exception says "not unique" and names the
\* index of a later duplicate.
C5_Uniqueness ==
    (pc # "idle" /\ HasDuplicates(rubric)) =>
       /\ Failed
       /\ log = <<>>
       /\ (isNumber_(assignmentId) /\ Offences(rubric) = {}
           /\ \A i \in 1..Len(rubric.items) :
                 /\ rubric.items[i].kind = "obj"
                 /\ \A j \in 1..Len(rubric.items[i].comments) :
                       rubric.items[i].comments[j] # Null)
          => /\ err.kind = "rubric" /\ err.field = "name" /\ err.reason = "not unique"
             /\ IF err.com < 0 THEN err.cat + 1 \in LaterCategoryDuplicates(rubric)
                ELSE <<err.cat + 1, err.com + 1>> \in LaterCommentDuplicates(rubric)

\* A call has been rejected for a comment of the second category that carries
\* the name of a comment of the first category.
C5_Witness ==
    /\ Failed /\ log = <<>> /\ err.reason = "not unique"
    /\ err.cat = 1 /\ err.com = 0
    /\ LaterCommentDuplicates(rubric) = {<<2, 1>>}
    /\ LaterCategoryDuplicates(rubric) = {}

\* The place of a request in a wipe: the reads of the assignment, the DELETE
\* batch of the categories, the POST batch of the categories, the POST batch
\* of the comments; 4 for any other request.
WipeRank(q) ==
    CASE q.method = "GET" /\ q.endpoint \in {ASSIGNMENTS_, SUBMISSIONS_} -> 0
      [] q.method = "DELETE" /\ q.endpoint = RUBRIC_CATEGORIES_ -> 1
      [] q.method = "POST" /\ q.endpoint = RUBRIC_CATEGORIES_ -> 2
      [] q.method = "POST" /\ q.endpoint = RUBRIC_COMMENTS_ -> 3
      [] OTHER -> 4

\* The requests of the call with a rank, in the order they were issued.
WipeRequests(rank) == SelectSeq(log, LAMBDA q : WipeRank(q) = rank)

\* The call was not declined and control has passed the named positions.
Passed(positions) == asked \in {0 - 1, YES_} /\ pc \in positions

\* C11 (wipe semantics): a call with wipe = TRUE issues only reads of the
\* assignment, then one DELETE batch with exactly the category ids the
\* assignment listed, then one POST batch that creates the desired categories
\* in declared order with sortKey = position and assignment = assignmentId,
\* then one POST batch that creates every desired comment once with sortKey =
\* its position in its category and category = the id the store gave its
\* category; it issues no GET of a category or a comment and no PATCH.
C11_WipeSemantics ==
    wipe =>
       /\ \A k \in 1..Len(log) : WipeRank(log[k]) < 4
       /\ \A k, l \in 1..Len(log) :
             /\ k < l => WipeRank(log[k]) <= WipeRank(log[l])
             /\ (WipeRank(log[k]) = WipeRank(log[l]) /\ WipeRank(log[k]) > 0)
                   => log[k].batch = log[l].batch
       /\ Passed({"wipeCategories", "wipeComments", "done"}) =>
             /\ {q.id : q \in {WipeRequests(1)[k] : k \in 1..Len(WipeRequests(1))}}
                   = {c["id"].n : c \in pre.cats}
             /\ Len(WipeRequests(1)) = Cardinality(pre.cats)
       /\ Passed({"wipeComments", "done"}) =>
             /\ Len(WipeRequests(2)) = Len(rubric.items)
             /\ \A i \in 1..Len(rubric.items) :
                   /\ WipeRequests(2)[i].data["name"] = rubric.items[i].args["name"]
                   /\ WipeRequests(2)[i].data["sortKey"] = Num(i - 1)
                   /\ WipeRequests(2)[i].data["assignment"] = assignmentId
       /\ Passed({"done"}) =>
             /\ Len(WipeRequests(3)) = Cardinality(DesiredCommentNames)
             /\ \A i \in 1..Len(rubric.items) : \A j \in 1..Len(rubric.items[i].comments) :
                   \E k \in 1..Len(WipeRequests(3)) : \E c \in cats :
                      /\ WipeRequests(3)[k].data["name"] = rubric.items[i].comments[j]["name"]
                      /\ WipeRequests(3)[k].data["sortKey"] = Num(j - 1)
                      /\ c["name"] = rubric.items[i].args["name"]
                      /\ WipeRequests(3)[k].data["category"] = c["id"]

\* A confirmed wipe has completed on a store that held two categories, for a
\* rubric of two categories that each declare a comment and carry a sortKey of
\* their own.
C11_Witness ==
    /\ wipe /\ Completed /\ asked = YES_
    /\ Cardinality(pre.cats) = 2
    /\ Len(rubric.items) = 2
    /\ \A i \in 1..2 : /\ rubric.items[i].comments # <<>>
                       /\ "sortKey" \in DOMAIN rubric.items[i].args

\* The comments that belonged, when the call started, to the category with
\* id categoryId.
BelongedTo(categoryId) == {m["id"].n : m \in {x \in pre.coms : x["category"].n = categoryId}}

\* C12 (implicit removal): in an incremental call with deleteExtra = TRUE,
\* once the DELETE of a category has been issued, no DELETE and no PATCH is
\* issued to a comment that belonged to that category.
C12_ImplicitCommentRemoval ==
    (~wipe /\ deleteExtra) =>
       \A k, l \in 1..Len(log) :
          (/\ k < l
           /\ log[k].method = "DELETE" /\ log[k].endpoint = RUBRIC_CATEGORIES_
           /\ log[l].method \in {"DELETE", "PATCH"}
           /\ log[l].endpoint = RUBRIC_COMMENTS_)
          => log[l].id \notin BelongedTo(log[k].id)

\* C13 (pre-flight confirmation): when the assignment has a submission, no
\* POST, PATCH or DELETE is issued unless askYesNo_ has returned YES_; when it
\* returned NO_ or CANCEL_ (which the closed dialog counts as) the call has
\* returned normally, has issued no such request and the store holds what it
\* held when the call started.  When the assignment has no submission,
\* askYesNo_ is not shown.
C13_PreflightConfirmation ==
    /\ (subs > 0 /\ asked # YES_) => Mutations = {}
    /\ (subs > 0 /\ asked \in {NO_, CANCEL_}) =>
          /\ pc = "done" /\ err = NoError
          /\ cats = pre.cats /\ coms = pre.coms
    /\ subs = 0 => asked = 0 - 1

\* A wipe of a store that holds categories, for a rubric that declares some,
\* was cancelled at the confirmation.
C13_Witness ==
    /\ subs > 0 /\ asked = CANCEL_ /\ pc = "done"
    /\ wipe /\ cats # {} /\ rubric.items # <<>>
    /\ Len(log) = 2

\* A call on an assignment without submissions has changed the store.
C13_WitnessNoSubmissions == subs = 0 /\ Completed /\ Mutations # {}

\* The effect of request q is in the store: what a POST created is stored
\* under its name with the values sent, what a PATCH changed has the values
\* sent, what a DELETE removed is not stored.
InEffect(q) ==
    LET S == IF q.endpoint = RUBRIC_CATEGORIES_ THEN cats ELSE coms
    IN  CASE q.method = "POST" ->
                 \E x \in S : /\ x["name"] = q.data["name"]
                              /\ \A f \in DOMAIN q.data : x[f] = q.data[f]
          [] q.method = "PATCH" ->
                 \E x \in S : /\ x["id"].n = q.id
                              /\ \A f \in DOMAIN q.data : x[f] = q.data[f]
          [] q.method = "DELETE" -> ~Live(S, q.id)
          [] OTHER -> TRUE

\* The requests of the call that the store answered with the success code.
Succeeded == {k \in 1..Len(log) : log[k].code = METHODS_(log[k].method)}

\* C14 (abort without rollback): a response without the success code is in
\* the last batch of the call and the call has ended with the exception of
\* fetch_; when a call has ended with an exception, every request of it that
\* succeeded is still in effect in the store; and from a state in which the
\* call has an exception, the call issues no request, the store does not
\* change and the call does not return normally.
C14_AbortWithoutRollback ==
    /\ [](/\ \A k \in 1..Len(log) :
                k \notin Succeeded =>
                   /\ Failed /\ err.kind = "fetch"
                   /\ log[k].batch = log[Len(log)].batch
          /\ Failed => (err.kind # "none" /\ \A k \in Succeeded : InEffect(log[k])))
    /\ [][err.kind # "none" =>
             /\ cats' = cats /\ coms' = coms /\ nextId' = nextId
             /\ pc' # "done"
             /\ log' = log \/ run' = run + 1]_vars

\* A call has ended with an exception after a batch that created a resource
\* and a batch that changed one.
C14_Witness ==
    /\ Failed
    /\ \E k, l \in Succeeded : log[k].method = "POST" /\ log[l].method = "PATCH"

\* The direct call is one of fetch_ that has left its first position.
Fetched(methods) == call.fn = "fetch_" /\ call.method \in methods /\ call.pc # "called"

\* The store holds what it held when the call was made.
StoreUntouched == cats = pre.cats /\ coms = pre.coms

\* The indices (from 0) of the malformed items of a POST or PATCH batch: a
\* missing item, and for PATCH an item without data or without id.
Malformed(method, data) ==
    {i - 1 : i \in {k \in 1..Len(data) :
                       \/ data[k].kind = "null"
                       \/ method = "PATCH" /\ (~data[k].hasData \/ IsNullish(data[k].id))}}

\* C15 (batch validation fail-fast): a call of fetch_ with method POST or
\* PATCH whose batch has a malformed item throws an error of fetch() that
\* names the index of a malformed item, the first one, and no request of the
\* batch is handed to UrlFetchApp.
C15_BatchValidationFailFast ==
    (Fetched({"POST", "PATCH"}) /\ Malformed(call.method, call.data) # {}) =>
       /\ call.pc = "thrown"
       /\ call.err.kind = "fetch" /\ call.err.function = "fetch()"
       /\ call.err.cat \in Malformed(call.method, call.data)
       /\ \A i \in Malformed(call.method, call.data) : call.err.cat <= i
       /\ call.fanouts = 0 /\ call.requests = <<>>
       /\ StoreUntouched

\* A PATCH batch of three items was rejected for its last item, which has
\* data and no id, the two items before it being well-formed.
C15_Witness ==
    /\ Fetched({"PATCH"}) /\ call.pc = "thrown"
    /\ Len(call.data) = 3
    /\ Malformed("PATCH", call.data) = {2}
    /\ call.data[3].hasData
    /\ call.err.cat = 2 /\ call.err.reason = "missing id"

\* The indices (from 0) of the items of a GET or DELETE batch that are neither
\* a bare number nor an object whose id is a number.
Unaddressed(data) ==
    {i - 1 : i \in {k \in 1..Len(data) :
                       ~(data[k].kind \in {"bare", "obj"} /\ data[k].id.t = "num")}}

\* C16 (items of a GET or DELETE batch): a call of fetch_ with method GET or
\* DELETE whose batch has an item that is neither a bare number nor an object
\* with a numeric id, a missing item included, throws an error of fetch()
\* that names the index of such an item, and no request is handed to
\* UrlFetchApp.
C16_UnaddressedItemRejected ==
    (Fetched({"GET", "DELETE"}) /\ Unaddressed(call.data) # {}) =>
       /\ call.pc = "thrown"
       /\ call.err.kind = "fetch" /\ call.err.function = "fetch()"
       /\ call.err.cat \in Unaddressed(call.data)
       /\ call.fanouts = 0 /\ call.requests = <<>>

\* The success status the contract requires of a method.
Required(method) ==
    CASE method = "GET" -> 200
      [] method = "POST" -> 201
      [] method = "PATCH" -> 200
      [] method = "DELETE" -> 204

\* The direct call (of fetch_ or fetchOne_) has handed its requests to
\* UrlFetchApp and has ended.
Processed == call.fanouts = 1 /\ call.pc \in {"returned", "thrown"}

\* The requests of the direct call that were answered without the required
\* status.
Wrong == {i \in 1..Len(call.requests) :
             call.responses[i].code # Required(call.method)}

\* C17 (status classification): a call of fetch_ or fetchOne_ whose requests
\* were answered returns if and only if every response has the status
\* required of the method (GET 200, POST 201, PATCH 200, DELETE 204), and then
\* returns the parsed bodies; else it throws an error of fetch() with the
\* method, the endpoint and id of a request answered otherwise, a different
\* 2xx status included, and the detail of its body (the body when it has no
\* detail).
C17_StatusClassification ==
    Processed =>
       /\ call.pc = "returned" <=> Wrong = {}
       /\ call.pc = "returned" =>
             /\ Len(call.result) = Len(call.requests)
             /\ \A i \in 1..Len(call.requests) :
                   call.result[i].o = call.responses[i].body
       /\ call.pc = "thrown" =>
             \E i \in Wrong :
                /\ call.err.kind = "fetch" /\ call.err.function = "fetch()"
                /\ call.err.field = call.method
                /\ call.err.path = <<call.endpoint, call.requests[i].id>>
                /\ call.err.detail =
                      IF "detail" \in DOMAIN call.responses[i].body
                      THEN call.responses[i].body["detail"]
                      ELSE call.responses[i].body

\* A POST batch has thrown for its second request, answered 200 with a detail,
\* the first having been answered 201.
C17_Witness ==
    /\ Processed /\ call.fn = "fetch_" /\ call.method = "POST" /\ call.pc = "thrown"
    /\ Len(call.requests) = 2
    /\ call.responses[1].code = 201 /\ call.responses[2].code = 200
    /\ call.err.detail = Str("d")

\* The parsed body o answers item number i of the batch: a body with an id
\* carries the id of the item (GET, PATCH), a body with a name the name of
\* the payload (POST).
AnswersItem(o, i) ==
    /\ (call.method \in {"GET", "PATCH"} /\ "id" \in DOMAIN o)
          => o["id"].n = IdOf(call.data[i].id)
    /\ (call.method = "POST" /\ "name" \in DOMAIN o)
          => o["name"] = call.data[i].data["name"]

\* C18 (response pairing): a call of fetch_ hands its requests to UrlFetchApp
\* at most once, all items of the batch together, before any response
\* arrives; and when it returns after that, the result has the length of the
\* batch and its i-th element is the parsed body of the response to the i-th
\* item, in whatever order the responses arrived.
C18_ResponsePairing ==
    call.fn = "fetch_" =>
       /\ call.fanouts <= 1
       /\ (call.fanouts = 1 \/ call.done # <<>>) =>
             /\ Len(call.requests) = Len(call.data)
             /\ call.fanouts = 1
       /\ (call.pc = "returned" /\ call.fanouts = 1) =>
             /\ Len(call.result) = Len(call.data)
             /\ \A i \in 1..Len(call.data) :
                   /\ call.result[i].o = call.responses[i].body
                   /\ AnswersItem(call.result[i].o, i)

\* A GET batch of three items, the first and the last with different ids, has
\* returned after its responses arrived in the opposite order, each with the
\* body of a stored comment.
C18_Witness ==
    /\ call.fn = "fetch_" /\ call.method = "GET" /\ call.pc = "returned"
    /\ call.done = <<3, 2, 1>>
    /\ \A i \in 1..3 : "id" \in DOMAIN call.result[i].o
    /\ call.result[1].o["id"] # call.result[3].o["id"]

\* C19 (parsing goes on past a failure): when a call of fetch_ throws because
\* a response of the batch has not the required status, processResult_ has
\* parsed and logged every response of the batch, those before and those
\* after the failing one.
C19_AllResponsesParsed ==
    (call.fn = "fetch_" /\ Processed /\ call.pc = "thrown") =>
       /\ call.err.kind = "fetch"
       /\ call.logged = Len(call.requests)

\* C20 (empty batch): a call of fetch_ with an empty list of items, whatever
\* its method, returns an empty list without handing any request to
\* UrlFetchApp, and the store holds what it held.
C20_EmptyBatch ==
    (call.fn = "fetch_" /\ call.data = <<>> /\ call.pc # "called") =>
       /\ call.pc = "returned"
       /\ call.result = <<>>
       /\ call.err = NoError
       /\ call.fanouts = 0 /\ call.requests = <<>> /\ call.done = <<>>
       /\ StoreUntouched

\* A DELETE call with an empty list of items has returned.
C20_Witness ==
    /\ call.fn = "fetch_" /\ call.method = "DELETE" /\ call.data = <<>>
    /\ call.pc = "returned" /\ call.result = <<>>

\* A call of fetchOne_, or of fetch_ with at least one item, has been made
\* and has gone past its first step.
Sending ==
    /\ call.fn \in {"fetch_", "fetchOne_"}
    /\ call.pc # "called"
    /\ (call.fn = "fetch_" => call.data # <<>>)

\* C21 (missing credential): with the document property API_KEY not set, a
\* call of fetchOne_ and a call of fetch_ with a non-empty batch throw the
\* error of makeOptions_ and hand no request to UrlFetchApp; a call of
\* importRubric_ therefore sends no request at all, leaves the store as it
\* was, and, once past the check of its arguments, fails with that error.
C21_MissingCredential ==
    IsNullish(apiKey) =>
       /\ Sending =>
             /\ call.pc = "thrown"
             /\ call.err = ConfigError
             /\ call.fanouts = 0 /\ call.requests = <<>> /\ call.done = <<>>
       /\ log = <<>>
       /\ StoreUntouched
       /\ pc \in {"idle", "getAssignment", "failed"}
       /\ (pc = "failed" /\ checkValidRubric_(rubric).err = NoError) =>
             err = ConfigError

\* Without the key, a PATCH batch of three well-formed items has thrown.
C21_Witness ==
    /\ IsNullish(apiKey)
    /\ call.fn = "fetch_" /\ call.method = "PATCH" /\ Len(call.data) = 3
    /\ Malformed("PATCH", call.data) = {}
    /\ call.pc = "thrown" /\ call.err = ConfigError

\* Without the key, a second call of importRubric_ with a valid rubric has
\* failed at Assignment.getById.
C21_WitnessImport ==
    /\ IsNullish(apiKey)
    /\ call = NoCall /\ pc = "failed" /\ err = ConfigError /\ run = 2

\* The string has no slash at its start and exactly one at its end.
Normalized(string) ==
    /\ ~startsWith(string, "/")
    /\ endsWith(string, "/")
    /\ ~endsWith(SubSeq(string, 1, Len(string) - 1), "/")

\* C22 (path normalization): for every endpoint string, several slashes at
\* its start or at its end included, the string fixEndpoint_ returns has no
\* slash at its start and exactly one at its end.
C22_PathNormalization ==
    (call.fn = "fixEndpoint_" /\ call.pc = "returned") => Normalized(call.result)

\* What fixEndpoint_ does: it removes one slash from the start, if there is
\* one, and adds one at the end unless the rest ends with one.
C22_OneSlashEach ==
    (call.fn = "fixEndpoint_" /\ call.pc = "returned") =>
       /\ (Len(call.endpoint) >= 2 /\ call.endpoint[1] # "/"
              /\ ~endsWith(SubSeq(call.endpoint, 1, Len(call.endpoint) - 1), "/"))
             => Normalized(call.result)
       /\ (Len(call.endpoint) >= 2 /\ call.endpoint[1] = "/"
              /\ call.endpoint[2] = "/") => startsWith(call.result, "/")
       /\ (Len(call.endpoint) >= 3 /\ endsWith(call.endpoint, "/")
              /\ call.endpoint[Len(call.endpoint) - 1] = "/")
             => endsWith(SubSeq(call.result, 1, Len(call.result) - 1), "/")

\* A call of checkArgs of either resource has returned or thrown.
Checked(options) ==
    /\ call.fn \in {"RubricCategory.checkArgs", "RubricComment.checkArgs"}
    /\ call.method \in options
    /\ call.pc \in {"returned", "thrown"}
    /\ call.data[1] # Null

\* The declared fields of the resource of the call with their validators:
\* the REQUIRED and the OPTIONAL table of its checkArgs.
RequiredFields ==
    IF call.fn = "RubricCategory.checkArgs" THEN CategoryREQUIRED ELSE CommentREQUIRED

DeclaredFields ==
    IF call.fn = "RubricCategory.checkArgs"
    THEN CategoryREQUIRED \o CategoryOPTIONAL
    ELSE CommentREQUIRED \o CommentOPTIONAL

\* The declared fields the object has whose value fails the field's validator.
Invalid(args, table) ==
    {table[i][1] : i \in {j \in 1..Len(table) :
                             /\ hasProp_(args, table[j][1])
                             /\ Validate(table[j][2], args[table[j][1]]) # ""}}

\* The fields of the table the object does not have.
Missing(args, table) ==
    {table[i][1] : i \in {j \in 1..Len(table) : ~hasProp_(args, table[j][1])}}

C23_WitnessRejected ==
    \/ /\ Checked({"updating"}) /\ call.fn = "RubricCategory.checkArgs"
       /\ DOMAIN call.data[1] = {"sortKey"}
       /\ call.pc = "thrown" /\ call.err.field = "sortKey"
    \/ /\ Checked({"creating"}) /\ call.fn = "RubricComment.checkArgs"
       /\ Missing(call.data[1], RequiredFields) = {"text"}
       /\ Invalid(call.data[1], DeclaredFields) = {}
       /\ call.pc = "thrown" /\ call.err.reason = "missing"

\* The fields checkArgs of a resource declares.
CategoryDeclared ==
    {"assignment", "name", "pointLimit", "helpText", "atMostOnce", "sortKey"}

CommentDeclared ==
    {"category", "name", "pointDelta", "text", "explanation", "instructionText",
     "templateTextOn", "sortKey"}

\* The fields declared for the call: without creating and updating the
\* reference to the parent is none of them.
DeclaredOf(fn, options) ==
    IF fn = "RubricCategory.checkArgs"
    THEN CategoryDeclared \ (IF options = "partial" THEN {"assignment"} ELSE {})
    ELSE CommentDeclared \ (IF options = "partial" THEN {"category"} ELSE {})

\* C24 (returned fields): the object checkArgs returns has exactly the
\* declared fields of its resource that the given object has, and no other
\* field; without creating and updating the reference to the parent
\* (assignment of a category, category of a comment) is not declared and is
\* never returned; and no payload importRubric_ sends has a field that is not
\* declared for the resource it is sent to.
C24_ReturnedFields ==
    /\ (Checked({"creating", "updating", "partial"}) /\ call.pc = "returned") =>
          /\ DOMAIN call.result[1]
                = DeclaredOf(call.fn, call.method) \cap DOMAIN call.data[1]
          /\ call.method = "partial" =>
                DOMAIN call.result[1] \cap {"assignment", "category"} = {}
    /\ \A i \in 1..Len(log) :
          log[i].method \in {"POST", "PATCH"} =>
             DOMAIN log[i].data \subseteq
                (IF log[i].endpoint = RUBRIC_CATEGORIES_ THEN CategoryDeclared
                 ELSE CommentDeclared)

\* Without creating and updating, a category given with its assignment and
\* an id has been returned with neither.
C24_Witness ==
    /\ Checked({"partial"}) /\ call.fn = "RubricCategory.checkArgs"
    /\ {"assignment", "id", "name"} \subseteq DOMAIN call.data[1]
    /\ call.pc = "returned"
    /\ DOMAIN call.result[1] \cap {"assignment", "id"} = {}

\* importRubric_ has created a comment that was given with the field tier.
C24_WitnessPayload ==
    /\ \E c \in 1..Len(rubric.items) : \E k \in 1..Len(rubric.items[c].comments) :
          "tier" \in DOMAIN rubric.items[c].comments[k]
    /\ \E i \in 1..Len(log) :
          /\ log[i].method = "POST" /\ log[i].endpoint = RUBRIC_COMMENTS_
          /\ log[i].code = 201

\* The fields of the given object that fail the check of the call: a required
\* field that is missing, a declared field whose value fails its validator.
Failing ==
    LET declared == SelectSeq(DeclaredFields,
                              LAMBDA e : e[1] \in DeclaredOf(call.fn, call.method))
        required == IF call.method = "updating" THEN <<>>
                    ELSE SelectSeq(RequiredFields,
                                   LAMBDA e : e[1] \in DeclaredOf(call.fn, call.method))
    IN  Missing(call.data[1], required) \cup Invalid(call.data[1], declared)

\* The fields an exception of checkArgs reports.
Reported(e) == IF e.kind = "checkArgs" /\ e.field # "" THEN {e.field} ELSE {}

\* C25 (error aggregation): when two or more fields of the given object fail
\* the check, checkArgs throws one error that reports every failing field
\* with the resource, the name of the field and the reason.
C25_ErrorAggregation ==
    (Checked({"creating", "updating", "partial"}) /\ Cardinality(Failing) >= 2) =>
       /\ call.pc = "thrown"
       /\ Reported(call.err) = Failing

\* What checkArgs does: it throws exactly when a field fails, and the error
\* names the resource and one failing field with its reason.
C25_OneFieldReported ==
    Checked({"creating", "updating", "partial"}) =>
       /\ call.pc = "thrown" <=> Failing # {}
       /\ call.pc = "thrown" =>
             /\ Cardinality(Reported(call.err)) = 1
             /\ Reported(call.err) \subseteq Failing
             /\ call.err.function
                   = (IF call.fn = "RubricCategory.checkArgs" THEN "RubricCategory"
                      ELSE "RubricComment")
             /\ call.err.reason # ""

\* The value is a number (NaN is none).
IsNumeric(v) == v.t \in {"num", "frac"}

\* The given object has a value for its signed field that is no number: the
\* pointDelta of a comment, or the pointLimit of a category unless it is null.
NonNumeric(args) ==
    IF call.fn = "RubricComment.checkArgs"
    THEN hasProp_(args, "pointDelta") /\ ~IsNumeric(args["pointDelta"])
    ELSE /\ hasProp_(args, "pointLimit")
         /\ ~IsNumeric(args["pointLimit"]) /\ args["pointLimit"] # Null

\* C26 (numeric validator): checkArgs rejects, whatever its options, every
\* object whose pointDelta is not a number (null, a boolean, a string that is
\* no number) and every object whose pointLimit is neither a number nor null,
\* so that no such value has its sign flipped.
C26_NumericValidator ==
    (Checked({"creating", "updating", "partial"}) /\ NonNumeric(call.data[1])) =>
       call.pc = "thrown"

\* What the numeric validator does: of the values that are no numbers it
\* rejects NaN only; checkArgs returns the others, negated as JavaScript
\* negates them when creating or updating.
C26_OnlyNaNRejected ==
    (Checked({"creating", "updating", "partial"}) /\ NonNumeric(call.data[1])) =>
       LET field == IF call.fn = "RubricComment.checkArgs" THEN "pointDelta"
                    ELSE "pointLimit"
       IN  /\ call.data[1][field] = NaN => call.pc = "thrown"
           /\ (call.data[1][field] # NaN /\ Failing = {}) =>
                 /\ call.pc = "returned"
                 /\ call.result[1][field]
                       = (IF call.method = "partial" THEN call.data[1][field]
                          ELSE Neg(call.data[1][field]))

\* The value written by the call, and the signed field it is the value of.
SignedField == IF call.endpoint = RUBRIC_CATEGORIES_ THEN "pointLimit" ELSE "pointDelta"

Written ==
    IF call.method = "POST" THEN call.data[1][SignedField]
    ELSE call.data[1].data[SignedField]

\* The stored object the call wrote.
StoredBy(id) ==
    IF call.endpoint = RUBRIC_CATEGORIES_ THEN ById(cats, id) ELSE ById(coms, id)

\* The value of the signed field of a stored object as the caller gave it.
CallerFacing(v) == IF v = Null THEN Null ELSE Neg(v)

\* C27 (sign-flip round trip): a category written through createAll or
\* updateAll with the number v as pointLimit, and a comment written with v as
\* pointDelta, is stored with -v and is read back through getByIds with v; a
\* null pointLimit is stored as null and read back as null.  In
\* importRubric_ the fetched categories and comments therefore carry the
\* caller's sign, as the given ones do, and a repeated call sends no update
\* of pointLimit or pointDelta.
C27_SignFlipRoundTrip ==
    /\ call.pc \in {"written", "read"} =>
          /\ call.requests[1].data[SignedField] = CallerFacing(Written)
          /\ StoredBy(call.result[1].o["id"].n)[SignedField] = CallerFacing(Written)
    /\ call.pc = "read" => call.result[1].o[SignedField] = Written
    /\ pc = "getComments" =>
          \A i \in 1..Len(loc.cpCategories) :
             \E c \in cats :
                /\ c["id"] = loc.cpCategories[i].v.o["id"]
                /\ loc.cpCategories[i].v.o["pointLimit"] = CallerFacing(c["pointLimit"])
    /\ pc = "createCategories" =>
          \A i \in 1..Len(loc.cpComments) :
             \E c \in coms :
                /\ c["id"] = loc.cpComments[i].v.o["id"]
                /\ loc.cpComments[i].v.o["pointDelta"] = CallerFacing(c["pointDelta"])
    /\ (run = 2 /\ prevOk) =>
          \A i \in 1..Len(log) :
             log[i].method = "PATCH" =>
                DOMAIN log[i].data \cap {"pointLimit", "pointDelta"} = {}

\* A comment created with pointDelta -3 is stored with 3 and read back with -3.
C27_Witness ==
    /\ call.fn = "RubricComment.createAll" /\ call.pc = "read"
    /\ Written = Num(0 - 3)
    /\ \E c \in coms : c["name"] = Str("y") /\ c["pointDelta"] = Num(3)
    /\ call.result[1].o["pointDelta"] = Num(0 - 3)

\* A category updated to pointLimit null is stored and read back with null.
C27_WitnessNull ==
    /\ call.fn = "RubricCategory.updateAll" /\ call.pc = "read"
    /\ Written = Null
    /\ call.result[1].o["id"] = Num(1)
    /\ ById(cats, 1)["pointLimit"] = Null /\ ById(pre.cats, 1)["pointLimit"] # Null
    /\ call.result[1].o["pointLimit"] = Null

\* The requests of this call that create or update a comment and carry a
\* category.
WithCategory ==
    {i \in 1..Len(log) : /\ log[i].endpoint = RUBRIC_COMMENTS_
                          /\ log[i].method \in {"POST", "PATCH"}
                          /\ "category" \in DOMAIN log[i].data}

\* The ids of the categories the store held when the call started.
FetchedIds == {c["id"] : c \in pre.cats}

\* Category id was in the store when request i of the log was handed to
\* UrlFetchApp: fetched at the start and not deleted by an earlier batch, or
\* new in this call and created by an earlier batch.
ExistedAt(i, id) ==
    \/ /\ id \in FetchedIds
       /\ ~\E j \in 1..Len(log) :
             /\ log[j].batch < log[i].batch
             /\ log[j].endpoint = RUBRIC_CATEGORIES_ /\ log[j].method = "DELETE"
             /\ log[j].code = 204 /\ Num(log[j].id) = id
    \/ /\ id \notin FetchedIds
       /\ id \in {c["id"] : c \in cats}
       /\ \E j \in 1..Len(log) :
             /\ log[j].batch < log[i].batch
             /\ log[j].endpoint = RUBRIC_CATEGORIES_ /\ log[j].method = "POST"
             /\ log[j].code = 201

\* C28 (category reference): every request of importRubric_ that creates or
\* updates a comment and carries a category carries the id of a category
\* that is in the store when the request is sent: one created by an earlier
\* batch of the same call, or one fetched at the start of the call and not
\* deleted in it; the creations of categories are answered before any
\* request for a comment is sent.
C28_CategoryReference ==
    /\ \A i \in WithCategory : ExistedAt(i, log[i].data["category"])
    /\ \A i, j \in 1..Len(log) :
          (/\ log[i].endpoint = RUBRIC_COMMENTS_ /\ log[i].method \in {"POST", "PATCH"}
           /\ log[j].endpoint = RUBRIC_CATEGORIES_ /\ log[j].method = "POST")
          => log[j].batch < log[i].batch /\ j < i

\* A comment has been created under a category created in the same call.
C28_Witness ==
    \E i \in WithCategory :
       /\ log[i].method = "POST" /\ log[i].code = 201
       /\ log[i].data["category"] \notin FetchedIds
       /\ ExistedAt(i, log[i].data["category"])

\* A request that moves a comment to another category has been sent.
C28_WitnessMoved ==
    \E i \in WithCategory : log[i].method = "PATCH"

\* The phase of a logged request: fetch, create, update, delete.
PhaseOf(method) ==
    CASE method = "GET" -> 2
      [] method = "POST" -> 4
      [] method = "PATCH" -> 5
      [] OTHER -> 6

\* The phase in the order the code runs them: an extra resource is deleted
\* before the updates are sent.
StepOf(method) ==
    CASE method = "GET" -> 2
      [] method = "POST" -> 4
      [] method = "DELETE" -> 5
      [] OTHER -> 6

\* The level of a logged request: 1 for categories, 2 for comments, 0 for the
\* assignment and its submissions.
LevelOf(endpoint) ==
    CASE endpoint = RUBRIC_CATEGORIES_ -> 1
      [] endpoint = RUBRIC_COMMENTS_ -> 2
      [] OTHER -> 0

\* C29 (phase ordering): in a call of importRubric_ without wipe the rubric
\* is validated before any request is sent, every fetch precedes every
\* request that changes the store, and at each level (categories, comments)
\* every create request precedes every update request and every update
\* request precedes every delete request.
C29_PhaseOrdering ==
    ~wipe =>
       /\ pc = "idle" => log = <<>>
       /\ \A i, j \in 1..Len(log) :
             (/\ LevelOf(log[i].endpoint) = LevelOf(log[j].endpoint)
                 \/ log[i].method = "GET"
              /\ PhaseOf(log[i].method) < PhaseOf(log[j].method))
             => i < j /\ log[i].batch < log[j].batch

\* What the code does: at each level the creations come first, then the
\* deletions of the extra resources, then the updates; every request for a
\* category precedes every request that changes a comment.
C29_CreateDeleteUpdate ==
    ~wipe =>
       /\ pc = "idle" => log = <<>>
       /\ \A i, j \in 1..Len(log) :
             (/\ LevelOf(log[i].endpoint) = LevelOf(log[j].endpoint)
                 \/ log[i].method = "GET"
              /\ StepOf(log[i].method) < StepOf(log[j].method))
             => i < j /\ log[i].batch < log[j].batch
       /\ \A i, j \in 1..Len(log) :
             (/\ LevelOf(log[i].endpoint) = 1
              /\ LevelOf(log[j].endpoint) = 2 /\ log[j].method # "GET")
             => i < j

\* The sortKeys of the stored objects S are 0 .. n-1 for the n objects of S,
\* each once.
Dense(S) == {x["sortKey"] : x \in S} = {Num(k) : k \in 0..(Cardinality(S) - 1)}

\* The stored comments of the category with an id.
CommentsOf(id) == {m \in coms : m["category"] = id}

\* C30 (dense sort keys): after an incremental call that completed, the
\* stored categories have exactly the sortKeys 0 .. N-1 and the comments of
\* every stored category exactly 0 .. K-1; the desired categories and the
\* desired comments of a category come first, in the order they are declared
\* in, and the others after them.
C30_DenseSortKeys ==
    (Completed /\ ~wipe) =>
       /\ Dense(cats)
       /\ \A c \in cats : Dense(CommentsOf(c["id"]))
       /\ \A i \in 1..Len(rubric.items) :
             \E c \in cats :
                /\ c["name"] = rubric.items[i].args["name"]
                /\ c["sortKey"] = Num(i - 1)
                /\ \A j \in 1..Len(rubric.items[i].comments) :
                      \E m \in CommentsOf(c["id"]) :
                         /\ m["name"] = rubric.items[i].comments[j]["name"]
                         /\ m["sortKey"] = Num(j - 1)
                /\ \A m \in CommentsOf(c["id"]) :
                      m["name"].s \notin DesiredCommentNames
                         => m["sortKey"].n >= Len(rubric.items[i].comments)
       /\ \A c \in cats :
             c["name"].s \notin DesiredCategoryNames
                => c["sortKey"].n >= Len(rubric.items)

\* An incremental call without deletion has completed and has renumbered a
\* comment that is not desired, in a store that was not dense for the desired
\* state: the comment was first in its category and a desired one follows.
C30_Witness ==
    /\ Completed /\ asked = YES_ /\ run = 1 /\ ~wipe /\ ~deleteExtra
    /\ \E m \in OrphanComments :
          /\ m["sortKey"] = Num(0)
          /\ Now(coms, m)["sortKey"].n > 0
    /\ Mutations # {}

\* An incremental call without deletion has completed with a category that is
\* not desired, renumbered behind two desired ones.
C30_WitnessCategories ==
    /\ Completed /\ asked = YES_ /\ run = 1 /\ ~wipe /\ ~deleteExtra
    /\ \E c \in OrphanCategories : Now(cats, c)["sortKey"].n # c["sortKey"].n

\* The name of a row as combineRubrics tells names apart: the property key
\* of its name, "" for a row without a name.
HasName(row) == ~IsNullish(Get(row, "name"))
NameOf(row) == IF HasName(row) THEN makeString(row["name"]) ELSE ""

\* The indices of the rows of the list that combineRubrics keeps a place
\* for: the rows without a name and the first row of every name.
KeptPlaces(rows) ==
    {i \in 1..Len(rows) :
        HasName(rows[i]) => \A j \in 1..(i - 1) :
                             ~(HasName(rows[j]) /\ NameOf(rows[j]) = NameOf(rows[i]))}

\* The last row of the list that has the name of row i (row i itself if it
\* has no name).
LastOf(rows, i) ==
    IF ~HasName(rows[i]) THEN rows[i]
    ELSE rows[CHOOSE j \in i..Len(rows) :
                 /\ HasName(rows[j]) /\ NameOf(rows[j]) = NameOf(rows[i])
                 /\ \A l \in (j + 1)..Len(rows) :
                       ~(HasName(rows[l]) /\ NameOf(rows[l]) = NameOf(rows[i]))]

\* The k-th smallest member of a set of indices.
RECURSIVE Nth(_, _)
Nth(S, k) == IF k = 1 THEN First(S) ELSE Nth(S \ {First(S)}, k - 1)

\* C31 (combineRubrics): the result has one row per place kept, in the order
\* of the places: a row without a name is the row given, and the row of a
\* name stands where the name was first seen and is the last row given with
\* that name, so every name is there exactly once; and combineRubrics of the
\* result is the result.  Names are told apart by their string form, which
\* is the name the comment gets in processRubric.
C31_CombineRubrics ==
    /\ (call.fn = "combineRubrics" /\ call.pc = "returned") =>
          LET rows == flat(call.data)
              places == KeptPlaces(rows)
          IN  /\ Len(call.result) = Cardinality(places)
              /\ \A k \in 1..Len(call.result) :
                    call.result[k] = LastOf(rows, Nth(places, k))
              /\ \A i \in 1..Len(rows) :
                    HasName(rows[i]) =>
                       Cardinality({k \in 1..Len(call.result) :
                                       /\ HasName(call.result[k])
                                       /\ NameOf(call.result[k]) = NameOf(rows[i])}) = 1
    /\ (call.fn = "combineRubrics" /\ call.pc = "recombined") =>
          call.result = call.data[1]

\* Two rubrics were combined whose second replaces a row of the first that is
\* followed by a row without a name.
C31_Witness ==
    /\ call.fn = "combineRubrics" /\ call.pc = "returned"
    /\ Len(call.data[1]) = 2 /\ Len(call.data[2]) = 1
    /\ HasName(call.data[1][1]) /\ ~HasName(call.data[1][2])
    /\ HasName(call.data[2][1]) /\ NameOf(call.data[2][1]) = NameOf(call.data[1][1])
    /\ call.data[2][1] # call.data[1][1]
    /\ call.result = <<call.data[2][1], call.data[1][2]>>

\* The result of such a call was combined again.
C31_WitnessAgain ==
    /\ call.fn = "combineRubrics" /\ call.pc = "recombined"
    /\ Len(call.result) = 2 /\ HasName(call.result[1]) /\ HasName(call.result[2])

\* The row lacks category, name, pointDelta or text.
Offending(row) ==
    \E f \in {"category", "name", "pointDelta", "text"} :
       ~hasProp_(row, f) \/ row[f] = Str("")

\* The rows of data that are not offending, in their order.
WithoutOffending(data) == SelectSeq(data, LAMBDA row : ~Offending(row))

\* A call of processRubric has ended; removeInvalid tells which kind.
Processed_(removeInvalid) ==
    /\ call.fn = "processRubric"
    /\ call.pc \in {"returned", "thrown"}
    /\ (call.method = "removeInvalid") = removeInvalid

\* C32 (lenient row processing): processRubric with removeInvalid = true
\* never throws, and returns what processRubric with removeInvalid = false
\* returns for the same rows without the offending ones: the same categories
\* in the same order, each with the same saved fields and the same comments;
\* with removeInvalid = false a list with an offending row makes the call
\* throw an error that names the index of the first offending row.
C32_LenientProcessing ==
    /\ Processed_(TRUE) =>
          /\ call.pc = "returned"
          /\ call.result = processRubric(WithoutOffending(call.data), FALSE).result
    /\ Processed_(FALSE) =>
          IF \E i \in 1..Len(call.data) : Offending(call.data[i])
          THEN /\ call.pc = "thrown"
               /\ call.err.function = "processRubric()"
               /\ call.err.com
                    = First({i \in 1..Len(call.data) : Offending(call.data[i])}) - 1
          ELSE call.pc = "returned"

\* A category of a result without the fields saved from the row that opened it.
NameAndComments(category) ==
    [name |-> category["name"], comments |-> category["comments"]]

\* What the code does: with removeInvalid = true the call never throws and
\* returns the categories of the other rows, each with the comments
\* processRubric with removeInvalid = false gives it for those rows; the
\* order of the categories and their saved fields are those of the first row
\* of each category, offending or not.
C32_SameComments ==
    /\ Processed_(TRUE) =>
          /\ call.pc = "returned"
          /\ {NameAndComments(call.result[k]) : k \in 1..Len(call.result)}
               = LET strict == processRubric(WithoutOffending(call.data), FALSE).result
                 IN  {NameAndComments(strict[k]) : k \in 1..Len(strict)}
    /\ Processed_(FALSE) =>
          IF \E i \in 1..Len(call.data) : Offending(call.data[i])
          THEN /\ call.pc = "thrown"
               /\ call.err.com
                    = First({i \in 1..Len(call.data) : Offending(call.data[i])}) - 1
          ELSE call.pc = "returned"

\* The PATCH requests of the call to the resource with an id at an endpoint.
PatchesTo(endpoint, id) ==
    {k \in 1..Len(log) : /\ log[k].method = "PATCH"
                         /\ log[k].endpoint = endpoint
                         /\ log[k].id = id}

\* The fields due for an update of a matched resource: the listed fields the
\* desired record has whose value is not the one the API user sees in the
\* stored object, and sortKey when the stored one is not the position.
Differing(shown, given, fields, position) ==
    {f \in fields \cap DOMAIN given : shown[f] # given[f]}
       \cup (IF shown["sortKey"] # Num(position) THEN {"sortKey"} ELSE {})

\* A resource gets a PATCH exactly when fields are due, and a PATCH to it
\* carries exactly the due fields.
PatchedExactly(endpoint, id, due) ==
    /\ (due = {}) <=> (PatchesTo(endpoint, id) = {})
    /\ \A k \in PatchesTo(endpoint, id) : DOMAIN log[k].data = due

\* The PATCH requests to the matched resources are minimal: each desired
\* category that has the name of a category of the start of the call, and each
\* desired comment that has the name of a comment of the start of the call,
\* is patched exactly with its due fields (for a comment, category is due when
\* the stored one is not the id of the category it is declared under).
MatchedPatchedExactly ==
    \A i \in 1..Len(rubric.items) :
       /\ \A a \in pre.cats :
             a["name"] = rubric.items[i].args["name"]
                => PatchedExactly(RUBRIC_CATEGORIES_, a["id"].n,
                       Differing(ShownCategory(a), rubric.items[i].args,
                                 {"pointLimit", "helpText", "atMostOnce"}, i - 1))
       /\ \A j \in 1..Len(rubric.items[i].comments) :
             \A m \in pre.coms : \A b \in cats :
                (/\ m["name"] = rubric.items[i].comments[j]["name"]
                 /\ b["name"] = rubric.items[i].args["name"])
                => PatchedExactly(RUBRIC_COMMENTS_, m["id"].n,
                       Differing(ShownComment(m), rubric.items[i].comments[j],
                                 {"text", "pointDelta", "explanation",
                                  "instructionText", "templateTextOn"}, j - 1)
                          \cup (IF m["category"] # b["id"] THEN {"category"} ELSE {}))

\* C33 (minimal updates): when an incremental call has ended after its
\* confirmation, every desired category or comment matched by name to a
\* remote one has got a PATCH if and only if a field of the desired record
\* differs from the remote value as the API user sees it, or the remote
\* sortKey is not the desired position, or (comments) the remote category is
\* not the id of the declared category; the payload of the PATCH is exactly
\* the differing fields; and no PATCH of the call has an empty payload.
C33_MinimalUpdates ==
    (Ended /\ ~wipe) =>
       /\ MatchedPatchedExactly
       /\ \A k \in 1..Len(log) : log[k].method = "PATCH" => DOMAIN log[k].data # {}

\* What the code does: the statement of C33 holds for every incremental call
\* that returns, and no call, returning or not, sends a PATCH with an empty
\* payload.
C33_MinimalWhenCompleted ==
    /\ (Completed /\ asked = YES_ /\ ~wipe) => MatchedPatchedExactly
    /\ \A k \in 1..Len(log) : log[k].method = "PATCH" => DOMAIN log[k].data # {}

\* The desired record of a name: the own properties of the desired category,
\* or the desired comment, that has the name; no properties when none has.
DesiredCategory(name) ==
    IF name \in DesiredCategoryNames
    THEN rubric.items[CHOOSE i \in 1..Len(rubric.items) :
                         rubric.items[i].args["name"].s = name].args
    ELSE <<>>

DesiredComment(name) ==
    IF name \in DesiredCommentNames
    THEN LET i == CHOOSE k \in 1..Len(rubric.items) :
                     \E j \in 1..Len(rubric.items[k].comments) :
                        rubric.items[k].comments[j]["name"].s = name
         IN  rubric.items[i].comments[CHOOSE j \in 1..Len(rubric.items[i].comments) :
                                         rubric.items[i].comments[j]["name"].s = name]
    ELSE <<>>

\* C34 (identity fields are never rewritten): no PATCH of a call of
\* importRubric_ carries the field name, and no PATCH to a category carries
\* the field assignment; and a category or comment of the start of the call
\* that is still in the store has, in every field that its desired record
\* lacks, other than sortKey and the category of a comment, the value it had
\* at the start of the call.
C34_IdentityFields ==
    /\ \A k \in 1..Len(log) :
          log[k].method = "PATCH"
             => /\ "name" \notin DOMAIN log[k].data
                /\ log[k].endpoint = RUBRIC_CATEGORIES_
                      => "assignment" \notin DOMAIN log[k].data
    /\ \A a \in pre.cats : \A c \in cats :
          c["id"] = a["id"]
             => \A f \in DOMAIN a \ ({"sortKey"} \cup DOMAIN DesiredCategory(a["name"].s)) :
                   c[f] = a[f]
    /\ \A m \in pre.coms : \A c \in coms :
          c["id"] = m["id"]
             => \A f \in DOMAIN m \ ({"sortKey", "category"}
                                     \cup DOMAIN DesiredComment(m["name"].s)) :
                   c[f] = m[f]

\* An incremental call has completed after it sent a PATCH to a category
\* whose desired record has no pointLimit while the store holds one for it,
\* and a PATCH to a comment whose desired record has no explanation.
C34_Witness ==
    /\ Completed /\ asked = YES_ /\ ~wipe
    /\ \E a \in pre.cats :
          /\ a["name"].s \in DesiredCategoryNames
          /\ "pointLimit" \notin DOMAIN DesiredCategory(a["name"].s)
          /\ a["pointLimit"] # Null
          /\ PatchesTo(RUBRIC_CATEGORIES_, a["id"].n) # {}
    /\ \E m \in pre.coms :
          /\ m["name"].s \in DesiredCommentNames
          /\ "explanation" \notin DOMAIN DesiredComment(m["name"].s)
          /\ m["explanation"] # Str("")
          /\ PatchesTo(RUBRIC_COMMENTS_, m["id"].n) # {}

\* The PATCH and DELETE requests of the call to the resource with an id at an
\* endpoint.
AddressedTo(endpoint, id) ==
    {k \in Mutations : /\ log[k].method \in {"PATCH", "DELETE"}
                       /\ log[k].endpoint = endpoint
                       /\ log[k].id = id}

\* C35 (one mutating request per resource): in a call with wipe = FALSE on a
\* remote tree with unique names, every category id and every comment id is
\* addressed by at most one PATCH or DELETE request of the call: no id twice
\* in a PATCH batch, and no id both patched and deleted.
C35_OneMutationPerId ==
    ~wipe =>
       \A k \in Mutations :
          log[k].method \in {"PATCH", "DELETE"}
             => AddressedTo(log[k].endpoint, log[k].id) = {k}

\* An incremental call with deleteExtra has completed after it deleted an
\* orphan category and patched a matched one, and deleted an orphan comment
\* and patched a matched one.
C35_Witness ==
    /\ Completed /\ asked = YES_ /\ ~wipe /\ deleteExtra
    /\ \E k, l \in Mutations :
          /\ log[k].endpoint = RUBRIC_CATEGORIES_ /\ log[k].method = "DELETE"
          /\ log[l].endpoint = RUBRIC_CATEGORIES_ /\ log[l].method = "PATCH"
    /\ \E k, l \in Mutations :
          /\ log[k].endpoint = RUBRIC_COMMENTS_ /\ log[k].method = "DELETE"
          /\ log[l].endpoint = RUBRIC_COMMENTS_ /\ log[l].method = "PATCH"

\* An incremental call without deleteExtra has completed after it patched a
\* matched category and an orphan category in one batch.
C35_WitnessOrphanUpdate ==
    /\ Completed /\ asked = YES_ /\ ~wipe /\ ~deleteExtra
    /\ \E a, b \in pre.cats :
          /\ a["name"].s \in DesiredCategoryNames
          /\ b["name"].s \notin DesiredCategoryNames
          /\ PatchesTo(RUBRIC_CATEGORIES_, a["id"].n) # {}
          /\ PatchesTo(RUBRIC_CATEGORIES_, b["id"].n) # {}

\* C36 (no deletion without wipe and deleteExtra): a call with wipe = FALSE
\* and deleteExtra = FALSE issues no DELETE request, and every category and
\* comment that the store held at the start of the call is in the store,
\* under its id, in every state of the call and after it, whatever the desired
\* state.
C36_NoDeletion ==
    (~wipe /\ ~deleteExtra) =>
       /\ \A k \in 1..Len(log) : log[k].method # "DELETE"
       /\ \A a \in pre.cats : \E c \in cats : c["id"] = a["id"]
       /\ \A m \in pre.coms : \E c \in coms : c["id"] = m["id"]

\* A call with wipe = FALSE and deleteExtra = FALSE has ended after its
\* confirmation, on a remote tree with a category and a comment that are not
\* desired, and has changed the store.
C36_Witness ==
    /\ Ended /\ ~wipe /\ ~deleteExtra
    /\ OrphanCategories # {}
    /\ OrphanComments # {}
    /\ Mutations # {}

====
